---- MODULE Spec2Model ----
(***************************************************************************)
(* Model of the resumable commit scanner (GitRepoScanner + ScanStateStore). *)
(*                                                                         *)
(* Disk state: the checkpoint file (ScanStateStore) and the output file    *)
(* (result snapshot).  Memory state: the fields of one GitRepoScanner      *)
(* instance and the locals of scan() and scanBranch().  The process can be *)
(* killed between any two disk writes; memory is then lost, disk is kept.  *)
(* A kill inside a write of the checkpoint file leaves it truncated.       *)
(*                                                                         *)
(* Spec is the scanner with kills and pushes.  SpecRewrite removes commits *)
(* between scans, SpecTwice runs a scan and then the same scan forced,     *)
(* SpecStore lets a client call the store before one scan, SpecAttempts    *)
(* records how each branch's most recent scan attempt ended.               *)
(*                                                                         *)
(* A finding carries the six key fields; committer and committedDate are   *)
(* copied from the commit and take part in no decision, so they are not    *)
(* carried.  BranchState.updatedAt is a wall-clock stamp no code reads.    *)
(***************************************************************************)
EXTENDS Integers, Sequences, FiniteSets, TLC

VARIABLES
    nCommits,               \* provider: number of commits on each branch
    stateFile,              \* disk: the checkpoint file
    outputFile,             \* disk: the output (snapshot) file
    pc,                     \* position of the process in scan()
    cfg,                    \* repoConfig / scanConfig of the running scan
    outputState,            \* GitRepoScanner.outputState
    totalProcessedCommits,  \* GitRepoScanner.totalProcessedCommits
    findingKeySet,          \* GitRepoScanner.findingKeySet
    agg,                    \* locals of scan()
    loc,                    \* locals of scanBranch()
    scannedMem,             \* history: (branch, sha) matched into outputState
    scannedDisk,            \* history: (branch, sha) matched into outputFile
    loadedScanned,          \* history: scannedMem as loaded at scan start
    seq,                    \* history: what disturbed the runs since the snapshot was last reset
    attempt,                \* history: how each branch's most recent scan attempt ended
    firstRun,               \* history: the first of two scans and the findings it left
    storeCall,              \* history: the most recent call that wrote through ScanStateStore
    prep,                   \* the clone workspace, the remote and the progress of prepareRepo
    rival,                  \* a second scan() of the same process (HTTP /scan)
    cli,                    \* the command-line runner main() around scan()
    matcher,                \* a diff text and what findLeaks returns for it
    walks,                  \* history: the commits each scanBranch call of a run processed
    ledger                  \* history: what the current run loaded and has matched since

vars == <<nCommits, stateFile, outputFile, pc, cfg, outputState,
          totalProcessedCommits, findingKeySet, agg, loc,
          scannedMem, scannedDisk, loadedScanned, seq,
          attempt, firstRun, storeCall, prep, rival, cli, matcher, walks,
          ledger>>

\* The parts of the program only the specifications further down run, and
\* the history variables only they record.
parts == <<prep, rival, cli, matcher, walks>>
histories == <<attempt, firstRun, storeCall, ledger>>
watch == <<histories, parts>>

disk == <<stateFile, outputFile>>
memory == <<cfg, outputState, totalProcessedCommits, findingKeySet, agg, loc>>

----------------------------------------------------------------------------
(* Bounds of the model *)

\* commits on branch "b1", commits on the other branch, largest configured
\* maxCommitsPerRun, largest cumulative processedCommits
MaxCommits == 3
MaxCommitsOther == 1
MaxCap == 1
MaxProcessed == 4

----------------------------------------------------------------------------
(* Values *)

Branches == {"b1", "b2"}
BranchLists == {<<"b1">>, <<"b1", "b2">>}
MaxLen(b) == IF b = "b1" THEN MaxCommits ELSE MaxCommitsOther
RepoUrl == "https://github.com/owner/project.git"

\* A second repository, scanned through the same two files.
OtherUrl == "https://github.com/other/project.git"

NoSha == ""
NoBranch == ""
EmptyMap == [b \in {} |-> NoSha]

Range(s) == {s[k] : k \in DOMAIN s}
Put(f, k, v) == [x \in (DOMAIN f) \cup {k} |-> IF x = k THEN v ELSE f[x]]
Remove(f, k) == [x \in (DOMAIN f) \ {k} |-> f[x]]

----------------------------------------------------------------------------
(* The version-control provider *)

\* The n-th commit (oldest = 1) of a branch.  The root commit is shared by
\* the branches; later commits are the branch's own.
ShaOf(b, n) ==
    IF n = 1 THEN "r1"
    ELSE (IF b = "b1" THEN "a" ELSE "e") \o ToString(n)

\* git log: the commits of the checked-out branch, newest first.
gitLog(b, n) == [k \in 1..n |-> ShaOf(b, n - k + 1)]

\* git log in the clone of the configured repository: the second
\* repository has one commit on every branch and shares none with the first.
gitLogOf(repoUrl, b, n) == IF repoUrl = RepoUrl THEN gitLog(b, n) ELSE <<"o1">>

\* The commits of a repository, over all its branches.
commitsOfRepo(repoUrl) ==
    IF repoUrl = RepoUrl
    THEN {ShaOf(b, k) : b \in Branches, k \in 1..(MaxCommits + MaxCommitsOther)}
    ELSE {"o1"}

\* git show <sha>: the diff of a commit, given as the matches the pattern
\* set has in it, in block and pattern order.
\*   root commit: one file whose lines "a|a|a" and "a|a" are matched by a
\*                pattern /a(\|a)?/g: "a|a"@"a|a|a", "a"@"a|a|a", "a|a"@"a|a"
\*   "..2":       the same added line twice in one file (two hunks)
\*   otherwise:   no match
gitShow(sha) ==
    IF sha = "r1" THEN
        << [filePath |-> "f", leakType |-> "/a(\\|a)?/g", leakValue |-> "a|a", linePreview |-> "a|a|a"],
           [filePath |-> "f", leakType |-> "/a(\\|a)?/g", leakValue |-> "a",   linePreview |-> "a|a|a"],
           [filePath |-> "f", leakType |-> "/a(\\|a)?/g", leakValue |-> "a|a", linePreview |-> "a|a"] >>
    ELSE IF sha \in {"a2", "e2"} THEN
        << [filePath |-> "g", leakType |-> "/AKIA[0-9A-Z]{16}/g", leakValue |-> "AKIA", linePreview |-> "+k=AKIA"],
           [filePath |-> "g", leakType |-> "/AKIA[0-9A-Z]{16}/g", leakValue |-> "AKIA", linePreview |-> "+k=AKIA"] >>
    ELSE << >>

\* findLeaks: one finding per match, tagged with the commit and the branch.
findLeaks(diff, commitSha, branch) ==
    [k \in 1..Len(diff) |->
        [branch      |-> branch,
         commitSha   |-> commitSha,
         filePath    |-> diff[k].filePath,
         leakType    |-> diff[k].leakType,
         leakValue   |-> diff[k].leakValue,
         linePreview |-> diff[k].linePreview]]

----------------------------------------------------------------------------
(* ScanStateStore: every operation re-reads the file and rewrites it *)

AbsentFile == [exists |-> FALSE, parses |-> TRUE, branches |-> EmptyMap]

\* A file a killed writeFileSync left truncated: JSON.parse throws on it.
TornFile == [exists |-> TRUE, parses |-> FALSE, branches |-> EmptyMap]

\* A checkpoint written with incomplete: false.
BranchStateDone(sha) == [lastProcessedSha |-> sha, incomplete |-> FALSE]

BranchState(sha) == [lastProcessedSha |-> sha, incomplete |-> TRUE]

\* JSON.stringify(state): a key whose value is undefined is left out.
stringify(state) ==
    [b \in DOMAIN state |->
        IF state[b].lastProcessedSha = NoSha
        THEN [incomplete |-> state[b].incomplete]
        ELSE [lastProcessedSha |-> state[b].lastProcessedSha,
              incomplete |-> state[b].incomplete]]

\* JSON.parse(text) as ScanState: a key left out reads as undefined.
parse(text) ==
    [b \in DOMAIN text |->
        [lastProcessedSha |-> IF "lastProcessedSha" \in DOMAIN text[b]
                              THEN text[b].lastProcessedSha
                              ELSE NoSha,
         incomplete |-> text[b].incomplete]]

\* load() has no try/catch: JSON.parse of a truncated file throws.
loadThrows(file) == file.exists /\ ~file.parses

load(file) == IF ~file.exists \/ ~file.parses THEN EmptyMap ELSE parse(file.branches)

save(state) == [exists |-> TRUE, parses |-> TRUE, branches |-> stringify(state)]

\* <<>> is undefined, <<s>> is the entry s.
getBranchState(file, branch) ==
    LET state == load(file)
    IN IF branch \in DOMAIN state THEN <<state[branch]>> ELSE << >>

\* saveBranchState whose write never reaches the file.
saveBranchStateBuffered(file, branch, branchState) == file

\* saveBranchState that writes the one entry over the whole document.
saveBranchStateAlone(file, branch, branchState) ==
    save(Put(EmptyMap, branch, branchState))

saveBranchState(file, branch, branchState) ==
    save(Put(load(file), branch, branchState))

clearAll(file) == AbsentFile

\* clearBranchState that leaves the file as it is.
clearBranchStateNoop(file, branch) == file

\* clearBranchState that saves the document even when it is left empty.
clearBranchStateKeepsFile(file, branch) ==
    LET state == load(file)
    IN IF branch \in DOMAIN state THEN save(Remove(state, branch)) ELSE file

\* clearBranchState that forgets to save when other entries remain.
clearBranchStateUnsaved(file, branch) ==
    LET state == load(file)
    IN IF branch \in DOMAIN state /\ DOMAIN Remove(state, branch) = {}
       THEN clearAll(file)
       ELSE file

clearBranchState(file, branch) ==
    LET state == load(file)
    IN IF branch \in DOMAIN state
       THEN IF DOMAIN Remove(state, branch) = {}
            THEN clearAll(file)
            ELSE save(Remove(state, branch))
       ELSE file

----------------------------------------------------------------------------
(* GitRepoScanner: the result snapshot *)

EmptySnapshot(repo) ==
    [repo |-> repo, processedCommits |-> 0,
     branchPlaceholders |-> EmptyMap, findings |-> << >>]

AbsentOutput ==
    [exists |-> FALSE, parses |-> TRUE, repo |-> "", processedCommits |-> 0,
     branchPlaceholders |-> EmptyMap, findings |-> << >>]

\* writeFileSync(outputFile, JSON.stringify(outputState))
writeOutput(os) ==
    [exists |-> TRUE, parses |-> TRUE, repo |-> os.repo,
     processedCommits |-> os.processedCommits,
     branchPlaceholders |-> os.branchPlaceholders, findings |-> os.findings]

\* JSON.parse(readFileSync(outputFile))
readOutput(file) ==
    [repo |-> file.repo, processedCommits |-> file.processedCommits,
     branchPlaceholders |-> file.branchPlaceholders, findings |-> file.findings]

makeFindingKey(f) ==
    f.branch \o "|" \o f.commitSha \o "|" \o f.filePath \o "|" \o
    f.leakType \o "|" \o f.leakValue \o "|" \o f.linePreview

\* addFindings without the key test (every new finding is pushed).
addFindingsNoDedup(findings, keys, newFindings) ==
    [findings |-> findings \o newFindings,
     keys |-> keys \cup {makeFindingKey(f) : f \in Range(newFindings)}]

\* The loop of persistOutputSnapshot over newFindings.
RECURSIVE addFindings(_, _, _)
addFindings(findings, keys, newFindings) ==
    IF newFindings = << >>
    THEN [findings |-> findings, keys |-> keys]
    ELSE LET finding == Head(newFindings)
             key == makeFindingKey(finding)
         IN IF key \in keys
            THEN addFindings(findings, keys, Tail(newFindings))
            ELSE addFindings(Append(findings, finding), keys \cup {key},
                             Tail(newFindings))

\* The placeholder update of persistOutputSnapshot.
setPlaceholder(placeholders, branch, lastSha) ==
    IF branch # NoBranch
    THEN IF lastSha # NoSha
         THEN Put(placeholders, branch, lastSha)
         ELSE Remove(placeholders, branch)
    ELSE placeholders

\* persistOutputSnapshot that leaves processedCommits as the snapshot has it.
persistOutputSnapshotKeepCount(os, keys, total, repo, newFindings, branch, lastSha) ==
    LET added == addFindings(os.findings, keys, newFindings)
    IN [outputState |->
            [repo |-> repo,
             processedCommits |-> os.processedCommits,
             branchPlaceholders |-> setPlaceholder(os.branchPlaceholders, branch, lastSha),
             findings |-> added.findings],
        findingKeySet |-> added.keys]

\* persistOutputSnapshot: the new outputState and findingKeySet; the caller
\* writes the new outputState to the output file.
persistOutputSnapshot(os, keys, total, repo, newFindings, branch, lastSha) ==
    LET added == addFindings(os.findings, keys, newFindings)
    IN [outputState |->
            [repo |-> repo,
             processedCommits |-> total,
             branchPlaceholders |-> setPlaceholder(os.branchPlaceholders, branch, lastSha),
             findings |-> added.findings],
        findingKeySet |-> added.keys]

shouldReset(force, sFile, oFile) ==
    force \/ ~sFile.exists \/ ~oFile.exists

\* loadExistingOutputState that takes what it finds in a file that does not
\* parse.
loadExistingOutputStateTrusting(force, repo, sFile, oFile) ==
    IF shouldReset(force, sFile, oFile)
    THEN [outputState |-> EmptySnapshot(repo),
          totalProcessedCommits |-> 0,
          findingKeySet |-> {},
          outputFile |-> writeOutput(EmptySnapshot(repo))]
    ELSE LET parsed == readOutput(oFile)
         IN [outputState |-> parsed,
             totalProcessedCommits |-> parsed.processedCommits,
             findingKeySet |-> {makeFindingKey(f) : f \in Range(parsed.findings)},
             outputFile |-> oFile]

\* loadExistingOutputState: the fields it sets and the output file it leaves.
\* JSON.parse throws on a file that does not parse; the catch block falls
\* through to the empty snapshot and writes nothing.
loadExistingOutputState(force, repo, sFile, oFile) ==
    IF shouldReset(force, sFile, oFile)
    THEN [outputState |-> EmptySnapshot(repo),
          totalProcessedCommits |-> 0,
          findingKeySet |-> {},
          outputFile |-> writeOutput(EmptySnapshot(repo))]
    ELSE IF ~oFile.parses
    THEN [outputState |-> EmptySnapshot(repo),
          totalProcessedCommits |-> 0,
          findingKeySet |-> {},
          outputFile |-> oFile]
    ELSE LET parsed == readOutput(oFile)
         IN [outputState |-> parsed,
             totalProcessedCommits |-> parsed.processedCommits,
             findingKeySet |-> {makeFindingKey(f) : f \in Range(parsed.findings)},
             outputFile |-> oFile]

\* resumeShaOf that resumes from the checkpoint in a forced scan too.
resumeShaOfForced(force, branchState) ==
    IF branchState # << >> /\ branchState[1].incomplete
    THEN branchState[1].lastProcessedSha
    ELSE NoSha

\* scanBranch: the resume boundary read from the checkpoint.
resumeShaOf(force, branchState) ==
    IF ~force /\ branchState # << >> /\ branchState[1].incomplete
    THEN branchState[1].lastProcessedSha
    ELSE NoSha

\* commits.findIndex(c => c.hash === sha), 1-based; 0 when not found.
findIndex(commits, sha) ==
    IF \E k \in DOMAIN commits : commits[k] = sha
    THEN CHOOSE k \in DOMAIN commits :
            commits[k] = sha /\ \A j \in 1..(k - 1) : commits[j] # sha
    ELSE 0

\* startIndex that takes a branch whose boundary is not found as walked.
startIndexSkipAll(commits, resumeSha) ==
    IF resumeSha # NoSha
    THEN LET idx == findIndex(commits, resumeSha)
         IN IF idx >= 1 THEN idx + 1 ELSE Len(commits) + 1
    ELSE 1

\* startIndex with the boundary commit itself walked again (idx for idx + 1).
startIndexAtBoundary(commits, resumeSha) ==
    IF resumeSha # NoSha
    THEN LET idx == findIndex(commits, resumeSha)
         IN IF idx >= 1 THEN idx ELSE 1
    ELSE 1

\* scanBranch: the (1-based) index of the first commit to walk.
startIndex(commits, resumeSha) ==
    IF resumeSha # NoSha
    THEN LET idx == findIndex(commits, resumeSha)
         IN IF idx >= 1 THEN idx + 1 ELSE 1
    ELSE 1

\* The cap test off by one (> for >=).
capExceeded(processed, max) == processed > max

\* The cap test at the top of the loop body.
capReached(processed, max) == processed >= max

\* maxCommitsPerRun ?? log.total
maxOf(c, total) == IF c.hasMax THEN c.maxCommitsPerRun ELSE total

----------------------------------------------------------------------------
(* The state when no scan is running *)

BlankCfg ==
    [forceFullScan |-> FALSE, hasMax |-> FALSE, maxCommitsPerRun |-> 0,
     repoUrl |-> "", branches |-> << >>]

BlankAgg ==
    [aggregateFindings |-> << >>, totalProcessed |-> 0,
     branchPlaceholders |-> EmptyMap, idx |-> 0]

BlankLoc ==
    [branch |-> NoBranch, commits |-> << >>, i |-> 0, processed |-> 0,
     max |-> 0, lastSha |-> NoSha, resumeSha |-> NoSha,
     completedBranch |-> TRUE, findings |-> << >>,
     reachedPrevious |-> FALSE]

\* killed: the process was killed during a scan; disturbed: a scan was forced
\* or listed more than one branch, or the history changed.
FreshSeq == [killed |-> FALSE, disturbed |-> FALSE]

NoAttempts == [b \in Branches |-> "none"]

NoFirstRun ==
    [phase |-> "none", force |-> FALSE, hasMax |-> FALSE, cap |-> 0,
     branches |-> << >>, findings |-> {}]

NoPrep ==
    [stage |-> "none", workDir |-> "none", removeCloneOnExit |-> FALSE,
     preferred |-> NoBranch, defaultBranch |-> NoBranch, list |-> << >>,
     remote |-> {}, head |-> NoBranch, checkedOut |-> NoBranch,
     error |-> "none", failedAt |-> "none",
     diskAtError |-> <<AbsentFile, AbsentOutput>>,
     failedBranch |-> NoBranch, failedCommit |-> NoSha, since |-> "none"]

NoRival ==
    [pc |-> "idle", branch |-> NoBranch, outputState |-> EmptySnapshot(""),
     findingKeySet |-> {}, totalProcessedCommits |-> 0, commits |-> << >>,
     i |-> 0, wrote |-> FALSE]

NoResult ==
    [findings |-> << >>, processedCommits |-> 0, branchPlaceholders |-> EmptyMap]

NoCli ==
    [stage |-> "none", force |-> FALSE, stateBefore |-> AbsentFile,
     snapshot |-> AbsentOutput, result |-> NoResult]

PrefixAKIA == << "A", "K", "I", "A" >>
PrefixASIA == << "A", "S", "I", "A" >>

\* lastIndex of the pattern objects as they are created (position 1 is
\* JavaScript's index 0).
FreshLastIndex == [p \in {PrefixAKIA, PrefixASIA} |-> 1]

NoMatcher ==
    [stage |-> "none", diffText |-> << >>, patterns |-> << >>,
     findings |-> << >>, lastIndex |-> FreshLastIndex,
     entered |-> FreshLastIndex]

NoWalks == [configured |-> << >>, seen |-> << >>]

\* runs: scans started; loaded: processedCommits as the run took it over at
\* its start; matched: commits whose diffs the run has matched so far.
NoLedger == [runs |-> 0, loaded |-> 0, matched |-> 0]

NoStoreCall ==
    [op |-> "none", branch |-> NoBranch, value |-> BranchState(NoSha),
     before |-> AbsentFile, scanStarted |-> FALSE]

Init ==
    /\ nCommits \in {f \in [Branches -> 1..(MaxCommits + MaxCommitsOther)] :
                        \A b \in Branches : f[b] <= MaxLen(b)}
    /\ stateFile = AbsentFile
    /\ outputFile = AbsentOutput
    /\ pc = "idle"
    /\ cfg = BlankCfg
    /\ outputState = EmptySnapshot("")
    /\ totalProcessedCommits = 0
    /\ findingKeySet = {}
    /\ agg = BlankAgg
    /\ loc = BlankLoc
    /\ scannedMem = {}
    /\ scannedDisk = {}
    /\ loadedScanned = {}
    /\ seq = FreshSeq
    /\ attempt = NoAttempts
    /\ firstRun = NoFirstRun
    /\ storeCall = NoStoreCall
    /\ prep = NoPrep
    /\ rival = NoRival
    /\ cli = NoCli
    /\ matcher = NoMatcher
    /\ walks = NoWalks
    /\ ledger = NoLedger

----------------------------------------------------------------------------
(* scan() *)

\* new GitRepoScanner(...).scan(): loadExistingOutputState, prepareRepo,
\* getBranchesToScan, up to the branch loop.
ScanStartOf(repoUrl, force, hasMax, cap, branches) ==
    /\ pc = "idle"
    /\ LET loaded == loadExistingOutputState(force, repoUrl, stateFile, outputFile)
           reset == shouldReset(force, stateFile, outputFile) \/ ~outputFile.parses
       IN /\ outputState' = loaded.outputState
          /\ totalProcessedCommits' = loaded.totalProcessedCommits
          /\ findingKeySet' = loaded.findingKeySet
          /\ outputFile' = loaded.outputFile
          /\ scannedMem' = IF reset THEN {} ELSE scannedDisk
          /\ scannedDisk' = IF reset THEN {} ELSE scannedDisk
          /\ loadedScanned' = IF reset THEN {} ELSE scannedDisk
          /\ seq' = IF reset
                    THEN [FreshSeq EXCEPT !.disturbed = force \/ Len(branches) > 1]
                    ELSE [seq EXCEPT !.disturbed = @ \/ Len(branches) > 1]
    /\ cfg' = [forceFullScan |-> force, hasMax |-> hasMax,
               maxCommitsPerRun |-> IF hasMax THEN cap ELSE 0,
               repoUrl |-> repoUrl, branches |-> branches]
    /\ agg' = [BlankAgg EXCEPT !.idx = 1]
    /\ pc' = "loop"
    /\ UNCHANGED <<nCommits, stateFile, loc>>

\* scan() of a scanner configured with the first repository.
ScanStart(force, hasMax, cap, branches) ==
    ScanStartOf(RepoUrl, force, hasMax, cap, branches)

\* One turn of the branch loop: checkoutBranch, then scanBranch up to its
\* commit loop.
ScanBranchBegin ==
    /\ pc = "loop"
    /\ agg.idx <= Len(cfg.branches)
    /\ ~loadThrows(stateFile)
    /\ LET branch == cfg.branches[agg.idx]
           branchState == getBranchState(stateFile, branch)
           resumeSha == resumeShaOf(cfg.forceFullScan, branchState)
           commits == gitLogOf(cfg.repoUrl, branch, nCommits[branch])
       IN /\ stateFile' =
                IF cfg.forceFullScan /\ branchState # << >> /\ branchState[1].incomplete
                THEN clearBranchState(stateFile, branch)
                ELSE stateFile
          /\ loc' = [branch |-> branch,
                     commits |-> commits,
                     i |-> startIndex(commits, resumeSha),
                     processed |-> 0,
                     max |-> maxOf(cfg, Len(commits)),
                     lastSha |-> resumeSha,
                     resumeSha |-> resumeSha,
                     completedBranch |-> TRUE,
                     findings |-> << >>,
                     reachedPrevious |-> FALSE]
    /\ pc' = "walk"
    /\ UNCHANGED <<nCommits, outputFile, cfg, outputState, totalProcessedCommits,
                   findingKeySet, agg, scannedMem, scannedDisk, loadedScanned, seq>>

\* scanBranch's first statement, getBranchState, throws on a checkpoint file
\* that does not parse: scanBranch and scan() reject.
ScanBranchThrows ==
    /\ pc = "loop"
    /\ agg.idx <= Len(cfg.branches)
    /\ loadThrows(stateFile)
    /\ pc' = "rejected"
    /\ UNCHANGED <<nCommits, disk, memory, scannedMem, scannedDisk,
                   loadedScanned, seq>>

\* Loop body, cap reached: completedBranch = false; break; return.
CapReached ==
    /\ pc = "walk"
    /\ loc.i <= Len(loc.commits)
    /\ capReached(loc.processed, loc.max)
    /\ loc' = [loc EXCEPT !.completedBranch = FALSE]
    /\ pc' = "returning"
    /\ UNCHANGED <<nCommits, disk, cfg, outputState, totalProcessedCommits,
                   findingKeySet, agg, scannedMem, scannedDisk, loadedScanned, seq>>

\* Loop body up to and including persistOutputSnapshot(matches, branch, lastSha).
ProcessCommit ==
    /\ pc = "walk"
    /\ loc.i <= Len(loc.commits)
    /\ ~capReached(loc.processed, loc.max)
    /\ totalProcessedCommits < MaxProcessed
    /\ LET hash == loc.commits[loc.i]
           matches == findLeaks(gitShow(hash), hash, loc.branch)
           total == totalProcessedCommits + 1
           persisted == persistOutputSnapshot(outputState, findingKeySet, total,
                                              cfg.repoUrl, matches, loc.branch, hash)
       IN /\ loc' = [loc EXCEPT !.findings = @ \o matches,
                                !.processed = @ + 1,
                                !.lastSha = hash]
          /\ totalProcessedCommits' = total
          /\ outputState' = persisted.outputState
          /\ findingKeySet' = persisted.findingKeySet
          /\ outputFile' = writeOutput(persisted.outputState)
          /\ scannedMem' = scannedMem \cup {<<loc.branch, hash>>}
          /\ scannedDisk' = scannedMem \cup {<<loc.branch, hash>>}
    /\ pc' = "saving"
    /\ UNCHANGED <<nCommits, stateFile, cfg, agg, loadedScanned, seq>>

\* Loop body, last statement: saveBranchState; then i++.
SaveCheckpoint ==
    /\ pc = "saving"
    /\ stateFile' = saveBranchState(stateFile, loc.branch,
                                    BranchState(loc.commits[loc.i]))
    /\ loc' = [loc EXCEPT !.i = @ + 1]
    /\ pc' = "walk"
    /\ UNCHANGED <<nCommits, outputFile, cfg, outputState, totalProcessedCommits,
                   findingKeySet, agg, scannedMem, scannedDisk, loadedScanned, seq>>

\* Loop ended without break: completedBranch holds, clearBranchState.
ExhaustedClear ==
    /\ pc = "walk"
    /\ ~(loc.i <= Len(loc.commits))
    /\ loc.completedBranch
    /\ stateFile' = clearBranchState(stateFile, loc.branch)
    /\ pc' = "completing"
    /\ UNCHANGED <<nCommits, outputFile, memory, scannedMem, scannedDisk,
                   loadedScanned, seq>>

\* delete branchPlaceholders[branch]; persistOutputSnapshot([], branch, undefined).
ExhaustedPersist ==
    /\ pc = "completing"
    /\ LET deleted == [outputState EXCEPT
                          !.branchPlaceholders = Remove(@, loc.branch)]
           persisted == persistOutputSnapshot(deleted, findingKeySet,
                                              totalProcessedCommits, cfg.repoUrl,
                                              << >>, loc.branch, NoSha)
       IN /\ outputState' = persisted.outputState
          /\ findingKeySet' = persisted.findingKeySet
          /\ outputFile' = writeOutput(persisted.outputState)
          /\ scannedDisk' = scannedMem
    /\ pc' = "returning"
    /\ UNCHANGED <<nCommits, stateFile, cfg, totalProcessedCommits, agg, loc,
                   scannedMem, loadedScanned, seq>>

\* scanBranch returns; scan() aggregates the branch's result.
BranchReturn ==
    /\ pc = "returning"
    /\ agg' = [aggregateFindings |-> agg.aggregateFindings \o loc.findings,
               totalProcessed |-> agg.totalProcessed + loc.processed,
               branchPlaceholders |->
                   Put(agg.branchPlaceholders, loc.branch, loc.lastSha),
               idx |-> agg.idx + 1]
    /\ loc' = BlankLoc
    /\ pc' = "loop"
    /\ UNCHANGED <<nCommits, disk, cfg, outputState, totalProcessedCommits,
                   findingKeySet, scannedMem, scannedDisk, loadedScanned, seq>>

\* After the loop: persistOutputSnapshot([], "", undefined); return.
ScanEnd ==
    /\ pc = "loop"
    /\ ~(agg.idx <= Len(cfg.branches))
    /\ LET persisted == persistOutputSnapshot(outputState, findingKeySet,
                                              totalProcessedCommits, cfg.repoUrl,
                                              << >>, NoBranch, NoSha)
       IN /\ outputFile' = writeOutput(persisted.outputState)
          /\ scannedDisk' = scannedMem
    /\ pc' = "idle"
    /\ cfg' = BlankCfg
    /\ outputState' = EmptySnapshot("")
    /\ totalProcessedCommits' = 0
    /\ findingKeySet' = {}
    /\ agg' = BlankAgg
    /\ loc' = BlankLoc
    /\ scannedMem' = {}
    /\ loadedScanned' = {}
    /\ UNCHANGED <<nCommits, stateFile, seq>>

\* scan() has rejected: the finally block has run, the caller holds the error
\* and the scanner instance is dropped.
ScanRejected ==
    /\ pc = "rejected"
    /\ pc' = "idle"
    /\ cfg' = BlankCfg
    /\ outputState' = EmptySnapshot("")
    /\ totalProcessedCommits' = 0
    /\ findingKeySet' = {}
    /\ agg' = BlankAgg
    /\ loc' = BlankLoc
    /\ scannedMem' = {}
    /\ loadedScanned' = {}
    /\ UNCHANGED <<nCommits, disk, scannedDisk, seq>>

----------------------------------------------------------------------------
(* The environment *)

\* The process is killed: memory is lost, the files stay as written.
Kill ==
    /\ pc # "idle"
    /\ pc' = "idle"
    /\ cfg' = BlankCfg
    /\ outputState' = EmptySnapshot("")
    /\ totalProcessedCommits' = 0
    /\ findingKeySet' = {}
    /\ agg' = BlankAgg
    /\ loc' = BlankLoc
    /\ scannedMem' = {}
    /\ loadedScanned' = {}
    /\ seq' = [seq EXCEPT !.killed = TRUE]
    /\ UNCHANGED <<nCommits, disk, scannedDisk>>

\* The next statement of the process rewrites the checkpoint file
\* (ScanStateStore.save: writeFileSync).
savesNext ==
    \/ pc = "saving"
    \/ /\ pc = "walk"
       /\ ~(loc.i <= Len(loc.commits))
       /\ loc.completedBranch
       /\ clearBranchState(stateFile, loc.branch) # stateFile
       /\ clearBranchState(stateFile, loc.branch).exists
    \/ /\ pc = "loop"
       /\ agg.idx <= Len(cfg.branches)
       /\ cfg.forceFullScan
       /\ clearBranchState(stateFile, cfg.branches[agg.idx]) # stateFile
       /\ clearBranchState(stateFile, cfg.branches[agg.idx]).exists

\* The process is killed inside writeFileSync of the checkpoint file, after
\* the file was truncated and before its new content was written.
KillInSave ==
    /\ savesNext
    /\ ~loadThrows(stateFile)
    /\ stateFile' = TornFile
    /\ pc' = "idle"
    /\ cfg' = BlankCfg
    /\ outputState' = EmptySnapshot("")
    /\ totalProcessedCommits' = 0
    /\ findingKeySet' = {}
    /\ agg' = BlankAgg
    /\ loc' = BlankLoc
    /\ scannedMem' = {}
    /\ loadedScanned' = {}
    /\ seq' = [seq EXCEPT !.killed = TRUE]
    /\ UNCHANGED <<nCommits, outputFile, scannedDisk>>

\* Between two scans the newest commit of a branch is removed from the
\* remote (the branch is reset and force-pushed).
DropCommit(b) ==
    /\ pc = "idle"
    /\ nCommits[b] > 1
    /\ nCommits' = [nCommits EXCEPT ![b] = @ - 1]
    /\ seq' = [seq EXCEPT !.disturbed = TRUE]
    /\ UNCHANGED <<disk, pc, memory, scannedMem, scannedDisk, loadedScanned>>

\* Between two scans a new commit is pushed to a branch.
PushCommit(b) ==
    /\ pc = "idle"
    /\ nCommits[b] < MaxLen(b)
    /\ nCommits' = [nCommits EXCEPT ![b] = @ + 1]
    /\ seq' = [seq EXCEPT !.disturbed = TRUE]
    /\ UNCHANGED <<disk, pc, memory, scannedMem, scannedDisk, loadedScanned>>

Next ==
    \/ \E force \in BOOLEAN, hasMax \in BOOLEAN, cap \in 0..MaxCap,
          branches \in BranchLists :
            ScanStart(force, hasMax, cap, branches) /\ UNCHANGED watch
    \/ ScanBranchBegin /\ UNCHANGED watch
    \/ ScanBranchThrows /\ UNCHANGED watch
    \/ CapReached /\ UNCHANGED watch
    \/ ProcessCommit /\ UNCHANGED watch
    \/ SaveCheckpoint /\ UNCHANGED watch
    \/ ExhaustedClear /\ UNCHANGED watch
    \/ ExhaustedPersist /\ UNCHANGED watch
    \/ BranchReturn /\ UNCHANGED watch
    \/ ScanEnd /\ UNCHANGED watch
    \/ ScanRejected /\ UNCHANGED watch
    \/ Kill /\ UNCHANGED watch
    \/ KillInSave /\ UNCHANGED watch
    \/ \E b \in Branches : PushCommit(b) /\ UNCHANGED watch

Spec == Init /\ [][Next]_vars

----------------------------------------------------------------------------
(* Two scans of an unchanged repository: a first scan on empty state, then  *)
(* the same scan with forceFullScan                                         *)

TwiceFirstStart(hasMax, cap, branches) ==
    /\ firstRun.phase = "none"
    /\ ScanStart(FALSE, hasMax, cap, branches)
    /\ firstRun' = [phase |-> "first", force |-> FALSE, hasMax |-> hasMax,
                    cap |-> cap, branches |-> branches, findings |-> {}]
    /\ UNCHANGED <<attempt, storeCall, parts, ledger>>

TwiceSecondStart ==
    /\ firstRun.phase = "firstDone"
    /\ ScanStart(TRUE, firstRun.hasMax, firstRun.cap, firstRun.branches)
    /\ firstRun' = [firstRun EXCEPT !.phase = "second", !.force = TRUE]
    /\ UNCHANGED <<attempt, storeCall, parts, ledger>>

TwiceScanEnd ==
    /\ ScanEnd
    /\ firstRun' = IF firstRun.phase = "first"
                   THEN [firstRun EXCEPT !.phase = "firstDone",
                                         !.findings = Range(outputFile'.findings)]
                   ELSE [firstRun EXCEPT !.phase = "secondDone"]
    /\ UNCHANGED <<attempt, storeCall, parts, ledger>>

NextTwice ==
    \/ \E hasMax \in BOOLEAN, cap \in 0..MaxCap, branches \in BranchLists :
            TwiceFirstStart(hasMax, cap, branches)
    \/ TwiceSecondStart
    \/ ScanBranchBegin /\ UNCHANGED watch
    \/ CapReached /\ UNCHANGED watch
    \/ ProcessCommit /\ UNCHANGED watch
    \/ SaveCheckpoint /\ UNCHANGED watch
    \/ ExhaustedClear /\ UNCHANGED watch
    \/ ExhaustedPersist /\ UNCHANGED watch
    \/ BranchReturn /\ UNCHANGED watch
    \/ TwiceScanEnd

SpecTwice == Init /\ [][NextTwice]_vars

----------------------------------------------------------------------------
(* Scans of a repository whose branches are reset and force-pushed between  *)
(* them                                                                     *)

NextRewrite ==
    \/ \E force \in BOOLEAN, hasMax \in BOOLEAN, cap \in 0..MaxCap,
          branches \in BranchLists :
            ScanStart(force, hasMax, cap, branches) /\ UNCHANGED watch
    \/ ScanBranchBegin /\ UNCHANGED watch
    \/ CapReached /\ UNCHANGED watch
    \/ ProcessCommit /\ UNCHANGED watch
    \/ SaveCheckpoint /\ UNCHANGED watch
    \/ ExhaustedClear /\ UNCHANGED watch
    \/ ExhaustedPersist /\ UNCHANGED watch
    \/ BranchReturn /\ UNCHANGED watch
    \/ ScanEnd /\ UNCHANGED watch
    \/ Kill /\ UNCHANGED watch
    \/ \E b \in Branches : DropCommit(b) /\ UNCHANGED watch

SpecRewrite == Init /\ [][NextRewrite]_vars

----------------------------------------------------------------------------
(* Scans with the end of each branch's most recent scan attempt recorded:   *)
(* an attempt starts when scanBranch is entered and finishes when its loop  *)
(* ends with completedBranch                                                *)

AttemptScanBranchBegin ==
    /\ ScanBranchBegin
    /\ attempt' = [attempt EXCEPT ![cfg.branches[agg.idx]] = "unfinished"]
    /\ UNCHANGED <<firstRun, storeCall, parts, ledger>>

AttemptExhaustedClear ==
    /\ ExhaustedClear
    /\ attempt' = [attempt EXCEPT ![loc.branch] = "finished"]
    /\ UNCHANGED <<firstRun, storeCall, parts, ledger>>

NextAttempts ==
    \/ \E force \in BOOLEAN, hasMax \in BOOLEAN, cap \in 0..MaxCap,
          branches \in BranchLists :
            ScanStart(force, hasMax, cap, branches) /\ UNCHANGED watch
    \/ AttemptScanBranchBegin
    \/ CapReached /\ UNCHANGED watch
    \/ ProcessCommit /\ UNCHANGED watch
    \/ SaveCheckpoint /\ UNCHANGED watch
    \/ AttemptExhaustedClear
    \/ ExhaustedPersist /\ UNCHANGED watch
    \/ BranchReturn /\ UNCHANGED watch
    \/ ScanEnd /\ UNCHANGED watch
    \/ Kill /\ UNCHANGED watch
    \/ \E b \in Branches : PushCommit(b) /\ UNCHANGED watch

SpecAttempts == Init /\ [][NextAttempts]_vars

----------------------------------------------------------------------------
(* The store under a client: calls of the ScanStateStore API with any       *)
(* BranchState, then one scan() over the file they left                     *)

\* BranchState values: lastProcessedSha set or not, incomplete true or false.
StoreValues ==
    {[lastProcessedSha |-> sha, incomplete |-> inc] :
        sha \in {NoSha, "r1", "a2"}, inc \in BOOLEAN}

CallOf(op, branch, value) ==
    [op |-> op, branch |-> branch, value |-> value, before |-> stateFile,
     scanStarted |-> storeCall.scanStarted]

StoreSave(b, s) ==
    /\ pc = "idle"
    /\ ~storeCall.scanStarted
    /\ stateFile' = saveBranchState(stateFile, b, s)
    /\ storeCall' = CallOf("saveBranchState", b, s)
    /\ UNCHANGED <<nCommits, outputFile, pc, memory, scannedMem, scannedDisk,
                   loadedScanned, seq, attempt, firstRun, parts, ledger>>

StoreClear(b) ==
    /\ pc = "idle"
    /\ ~storeCall.scanStarted
    /\ stateFile' = clearBranchState(stateFile, b)
    /\ storeCall' = CallOf("clearBranchState", b, BranchState(NoSha))
    /\ UNCHANGED <<nCommits, outputFile, pc, memory, scannedMem, scannedDisk,
                   loadedScanned, seq, attempt, firstRun, parts, ledger>>

StoreClearAll ==
    /\ pc = "idle"
    /\ ~storeCall.scanStarted
    /\ stateFile' = clearAll(stateFile)
    /\ storeCall' = CallOf("clearAll", NoBranch, BranchState(NoSha))
    /\ UNCHANGED <<nCommits, outputFile, pc, memory, scannedMem, scannedDisk,
                   loadedScanned, seq, attempt, firstRun, parts, ledger>>

StoreScanStart(force, hasMax, cap, branches) ==
    /\ ~storeCall.scanStarted
    /\ ScanStart(force, hasMax, cap, branches)
    /\ storeCall' = [storeCall EXCEPT !.scanStarted = TRUE]
    /\ UNCHANGED <<attempt, firstRun, parts, ledger>>

StoreScanBranchBegin ==
    /\ ScanBranchBegin
    /\ LET branch == cfg.branches[agg.idx]
           branchState == getBranchState(stateFile, branch)
       IN storeCall' =
            IF cfg.forceFullScan /\ branchState # << >> /\ branchState[1].incomplete
            THEN CallOf("clearBranchState", branch, BranchState(NoSha))
            ELSE storeCall
    /\ UNCHANGED <<attempt, firstRun, parts, ledger>>

StoreSaveCheckpoint ==
    /\ SaveCheckpoint
    /\ storeCall' = CallOf("saveBranchState", loc.branch,
                           BranchState(loc.commits[loc.i]))
    /\ UNCHANGED <<attempt, firstRun, parts, ledger>>

StoreExhaustedClear ==
    /\ ExhaustedClear
    /\ storeCall' = CallOf("clearBranchState", loc.branch, BranchState(NoSha))
    /\ UNCHANGED <<attempt, firstRun, parts, ledger>>

NextStore ==
    \/ \E b \in Branches, s \in StoreValues : StoreSave(b, s)
    \/ \E b \in Branches : StoreClear(b)
    \/ StoreClearAll
    \/ \E force \in BOOLEAN, hasMax \in BOOLEAN, cap \in 0..MaxCap,
          branches \in BranchLists :
            StoreScanStart(force, hasMax, cap, branches)
    \/ StoreScanBranchBegin
    \/ CapReached /\ UNCHANGED watch
    \/ ProcessCommit /\ UNCHANGED watch
    \/ StoreSaveCheckpoint
    \/ StoreExhaustedClear
    \/ ExhaustedPersist /\ UNCHANGED watch
    \/ BranchReturn /\ UNCHANGED watch
    \/ ScanEnd /\ UNCHANGED watch
    \/ Kill /\ UNCHANGED watch

SpecStore == Init /\ [][NextStore]_vars

----------------------------------------------------------------------------
(* One scan() with prepareRepo, checkoutBranch and cleanup spelled out      *)

\* The configured branch lists (empty: every remote branch) and the
\* preferred default branches ("main" is on no remote of the model).
ConfiguredLists == BranchLists \cup {<< >>}
PreferredBranches == Branches \cup {"main"}

\* git branch -r, filtered and de-duplicated, in the order git prints it.
remoteBranches(remote) ==
    LET onRemote(b) == b \in remote
    IN SelectSeq(<<"b1", "b2">>, onRemote)

\* git checkout <branch> in the fresh clone: it succeeds for a branch that
\* has a remote-tracking ref.
canCheckout(branch, remote) == branch \in remote

hasRemoteBranch(branch, remote) == branch \in remote

\* getBranchesToScan with the explicit list made unique.
RECURSIVE withoutRepeats(_)
withoutRepeats(list) ==
    IF list = << >> THEN << >>
    ELSE LET front == withoutRepeats(SubSeq(list, 1, Len(list) - 1))
         IN IF list[Len(list)] \in Range(front) THEN front
            ELSE Append(front, list[Len(list)])

getBranchesToScanUnique(list, remote, defaultBranch) ==
    IF Len(list) > 0 THEN withoutRepeats(list)
    ELSE IF remoteBranches(remote) # << >> THEN remoteBranches(remote)
    ELSE <<defaultBranch>>

getBranchesToScan(list, remote, defaultBranch) ==
    IF Len(list) > 0
    THEN list
    ELSE LET unique == remoteBranches(remote)
         IN IF Len(unique) > 0 THEN unique ELSE <<defaultBranch>>

\* checkoutBranch that takes a missing branch as checked out.
checkoutBranchSilent(branch, remote) == "ok"

\* checkoutBranch: "ok", or the error it throws.
checkoutBranch(branch, remote) ==
    IF canCheckout(branch, remote) THEN "ok"
    ELSE IF hasRemoteBranch(branch, remote) THEN "ok"
    ELSE "BranchNotFound"

\* The HTTP status the error handler answers with (err.status ?? 500).
statusOf(error) ==
    IF error \in {"CloneFailed", "BranchNotFound"} THEN 404 ELSE 500

\* ensureDefaultBranchCheckedOut without the remote HEAD fallback.
ensureDefaultNoHead(preferred, head, list, remote) ==
    IF preferred # NoBranch /\ canCheckout(preferred, remote)
    THEN [error |-> "none", checkedOut |-> preferred, defaultBranch |-> preferred]
    ELSE LET branches == getBranchesToScan(list, remote, preferred)
         IN IF canCheckout(branches[1], remote)
            THEN [error |-> "none", checkedOut |-> branches[1],
                  defaultBranch |-> branches[1]]
            ELSE [error |-> "GitError", checkedOut |-> NoBranch,
                  defaultBranch |-> preferred]

\* ensureDefaultBranchCheckedOut: the error it throws ("none": it returns),
\* the branch checked out and repoConfig.defaultBranch afterwards.  head is
\* what detectRemoteHeadBranch returns (NoBranch: undefined).
ensureDefaultBranchCheckedOut(preferred, head, list, remote) ==
    IF preferred # NoBranch /\ canCheckout(preferred, remote)
    THEN [error |-> "none", checkedOut |-> preferred, defaultBranch |-> preferred]
    ELSE IF head # NoBranch
    THEN IF canCheckout(head, remote)
         THEN [error |-> "none", checkedOut |-> head, defaultBranch |-> head]
         ELSE [error |-> "GitError", checkedOut |-> NoBranch,
               defaultBranch |-> preferred]
    ELSE LET branches == getBranchesToScan(list, remote, preferred)
         IN IF Len(branches) > 0
            THEN IF canCheckout(branches[1], remote)
                 THEN [error |-> "none", checkedOut |-> branches[1],
                       defaultBranch |-> branches[1]]
                 ELSE [error |-> "GitError", checkedOut |-> NoBranch,
                       defaultBranch |-> preferred]
            ELSE [error |-> "NoBranchAvailable", checkedOut |-> NoBranch,
                  defaultBranch |-> preferred]

\* cleanup() in the finally block of scan().
cleanup(p) ==
    IF p.removeCloneOnExit /\ p.workDir = "created" THEN "removed" ELSE p.workDir

\* scan() up to the clone: loadExistingOutputState, then prepareRepo creates
\* the workspace with mkdtempSync.  The remote has the branches `remote` and
\* its HEAD can be read as `head` (NoBranch: it cannot be read).
RepoScanStart(hasMax, cap, list, preferred, remove, remote, head) ==
    /\ prep.stage = "none"
    /\ head \in remote \cup {NoBranch}
    /\ ScanStart(FALSE, hasMax, cap, list)
    /\ prep' = [NoPrep EXCEPT !.stage = "clone", !.workDir = "created",
                              !.removeCloneOnExit = remove,
                              !.preferred = preferred,
                              !.defaultBranch = preferred,
                              !.list = list, !.remote = remote, !.head = head]
    /\ UNCHANGED <<histories, rival, cli, matcher, walks>>

\* git clone succeeded.
RepoCloned ==
    /\ pc = "loop"
    /\ prep.stage = "clone"
    /\ prep' = [prep EXCEPT !.stage = "default"]
    /\ UNCHANGED <<nCommits, disk, pc, memory, scannedMem, scannedDisk,
                   loadedScanned, seq, histories, rival, cli, matcher, walks>>

\* The provider fails in prepareRepo (clone, fetch) or in the branch listing
\* of scan(): all of them run before the try block, so scan() rejects without
\* cleanup.
RepoPrepareFails ==
    /\ pc = "loop"
    /\ prep.stage \in {"clone", "fetch", "list"}
    /\ prep' = [prep EXCEPT !.stage = "done",
                            !.error = IF prep.stage = "clone"
                                      THEN "CloneFailed" ELSE "GitError",
                            !.failedAt = prep.stage,
                            !.diskAtError = disk]
    /\ pc' = "rejected"
    /\ UNCHANGED <<nCommits, disk, memory, scannedMem, scannedDisk,
                   loadedScanned, seq, histories, rival, cli, matcher, walks>>

\* ensureDefaultBranchCheckedOut, called by prepareRepo.
RepoEnsureDefault ==
    /\ pc = "loop"
    /\ prep.stage = "default"
    /\ LET r == ensureDefaultBranchCheckedOut(prep.preferred, prep.head,
                                              prep.list, prep.remote)
       IN IF r.error = "none"
          THEN /\ prep' = [prep EXCEPT !.stage = "fetch",
                                       !.checkedOut = r.checkedOut,
                                       !.defaultBranch = r.defaultBranch]
               /\ pc' = pc
          ELSE /\ prep' = [prep EXCEPT !.stage = "done", !.error = r.error,
                                       !.failedAt = "default",
                                       !.diskAtError = disk]
               /\ pc' = "rejected"
    /\ UNCHANGED <<nCommits, disk, memory, scannedMem, scannedDisk,
                   loadedScanned, seq, histories, rival, cli, matcher, walks>>

\* git fetch succeeded.
RepoFetched ==
    /\ pc = "loop"
    /\ prep.stage = "fetch"
    /\ prep' = [prep EXCEPT !.stage = "list"]
    /\ UNCHANGED <<nCommits, disk, pc, memory, scannedMem, scannedDisk,
                   loadedScanned, seq, histories, rival, cli, matcher, walks>>

\* const branches = await this.getBranchesToScan().
RepoListBranches ==
    /\ pc = "loop"
    /\ prep.stage = "list"
    /\ cfg' = [cfg EXCEPT !.branches =
                    getBranchesToScan(prep.list, prep.remote, prep.defaultBranch)]
    /\ prep' = [prep EXCEPT !.stage = "ready"]
    /\ UNCHANGED <<nCommits, disk, pc, outputState, totalProcessedCommits,
                   findingKeySet, agg, loc, scannedMem, scannedDisk,
                   loadedScanned, seq, histories, rival, cli, matcher, walks>>

\* One turn of the branch loop whose checkoutBranch succeeds.
RepoScanBranchBegin ==
    /\ prep.stage = "ready"
    /\ agg.idx <= Len(cfg.branches)
    /\ checkoutBranch(cfg.branches[agg.idx], prep.remote) = "ok"
    /\ ScanBranchBegin
    /\ prep' = [prep EXCEPT !.checkedOut = cfg.branches[agg.idx]]
    /\ UNCHANGED <<histories, rival, cli, matcher, walks>>

\* One turn of the branch loop whose checkoutBranch throws: scan() rejects
\* through the finally block.
RepoCheckoutThrows ==
    /\ pc = "loop"
    /\ prep.stage = "ready"
    /\ agg.idx <= Len(cfg.branches)
    /\ checkoutBranch(cfg.branches[agg.idx], prep.remote) # "ok"
    /\ prep' = [prep EXCEPT !.stage = "done",
                            !.error = checkoutBranch(cfg.branches[agg.idx], prep.remote),
                            !.workDir = cleanup(prep),
                            !.failedAt = "checkout",
                            !.diskAtError = disk]
    /\ pc' = "rejected"
    /\ UNCHANGED <<nCommits, disk, memory, scannedMem, scannedDisk,
                   loadedScanned, seq, histories, rival, cli, matcher, walks>>

\* git log or git show fails during the walk: scanBranch and scan() reject
\* through the finally block.
RepoWalkFails ==
    /\ pc = "walk"
    /\ prep' = [prep EXCEPT !.stage = "done", !.error = "GitError",
                            !.workDir = cleanup(prep), !.failedAt = "walk",
                            !.diskAtError = disk]
    /\ pc' = "rejected"
    /\ UNCHANGED <<nCommits, disk, memory, scannedMem, scannedDisk,
                   loadedScanned, seq, histories, rival, cli, matcher, walks>>

\* scan() returns through the finally block.
RepoScanEnd ==
    /\ prep.stage = "ready"
    /\ ScanEnd
    /\ prep' = [prep EXCEPT !.stage = "done", !.workDir = cleanup(prep)]
    /\ UNCHANGED <<histories, rival, cli, matcher, walks>>

NextRepo ==
    \/ \E hasMax \in BOOLEAN, cap \in 0..MaxCap, list \in ConfiguredLists,
          preferred \in PreferredBranches, remove \in BOOLEAN,
          remote \in SUBSET Branches, head \in Branches \cup {NoBranch} :
            RepoScanStart(hasMax, cap, list, preferred, remove, remote, head)
    \/ RepoCloned
    \/ RepoPrepareFails
    \/ RepoEnsureDefault
    \/ RepoFetched
    \/ RepoListBranches
    \/ RepoScanBranchBegin
    \/ RepoCheckoutThrows
    \/ RepoWalkFails
    \/ CapReached /\ UNCHANGED watch
    \/ ProcessCommit /\ UNCHANGED watch
    \/ SaveCheckpoint /\ UNCHANGED watch
    \/ ExhaustedClear /\ UNCHANGED watch
    \/ ExhaustedPersist /\ UNCHANGED watch
    \/ BranchReturn /\ UNCHANGED watch
    \/ RepoScanEnd
    \/ ScanRejected /\ UNCHANGED watch

SpecRepo == Init /\ [][NextRepo]_vars

----------------------------------------------------------------------------
(* Runs of scan() in which git show fails for a commit; prep remembers the
   most recent failure and whether a later run has started since. *)

\* git.raw(["show", ...]) throws for the commit the loop is at: scanBranch
\* and scan() reject.
GitShowFails ==
    /\ pc = "walk"
    /\ loc.i <= Len(loc.commits)
    /\ ~capReached(loc.processed, loc.max)
    /\ prep' = [prep EXCEPT !.error = "GitError",
                            !.failedAt = "show",
                            !.diskAtError = disk,
                            !.failedBranch = loc.branch,
                            !.failedCommit = loc.commits[loc.i],
                            !.since = "failed"]
    /\ pc' = "rejected"
    /\ UNCHANGED <<nCommits, disk, memory, scannedMem, scannedDisk,
                   loadedScanned, seq, histories, rival, cli, matcher, walks>>

\* The next scan() starts.
FailScanStart(force, hasMax, cap, branches) ==
    /\ ScanStart(force, hasMax, cap, branches)
    /\ prep' = [prep EXCEPT !.since = IF @ = "failed" THEN "next"
                                      ELSE IF @ = "next" THEN "later" ELSE @]
    /\ UNCHANGED <<histories, rival, cli, matcher, walks>>

NextFail ==
    \/ \E force \in BOOLEAN, hasMax \in BOOLEAN, cap \in 0..MaxCap,
          branches \in BranchLists :
            FailScanStart(force, hasMax, cap, branches)
    \/ ScanBranchBegin /\ UNCHANGED watch
    \/ GitShowFails
    \/ CapReached /\ UNCHANGED watch
    \/ ProcessCommit /\ UNCHANGED watch
    \/ SaveCheckpoint /\ UNCHANGED watch
    \/ ExhaustedClear /\ UNCHANGED watch
    \/ ExhaustedPersist /\ UNCHANGED watch
    \/ BranchReturn /\ UNCHANGED watch
    \/ ScanEnd /\ UNCHANGED watch
    \/ ScanRejected /\ UNCHANGED watch

SpecFail == Init /\ [][NextFail]_vars

----------------------------------------------------------------------------
(* Runs of scan() over an output file that a killed run has left cut short. *)

\* The output file after a writeFileSync that was cut short: the beginning
\* of the new content, which does not parse.
TornOutput(os) == [writeOutput(os) EXCEPT !.parses = FALSE]

\* The process is killed inside the writeFileSync of persistOutputSnapshot
\* for the commit the loop is at.
KillInPersist ==
    /\ pc = "walk"
    /\ loc.i <= Len(loc.commits)
    /\ ~capReached(loc.processed, loc.max)
    /\ totalProcessedCommits < MaxProcessed
    /\ LET hash == loc.commits[loc.i]
           matches == findLeaks(gitShow(hash), hash, loc.branch)
           persisted == persistOutputSnapshot(outputState, findingKeySet,
                                              totalProcessedCommits + 1,
                                              cfg.repoUrl, matches, loc.branch, hash)
       IN outputFile' = TornOutput(persisted.outputState)
    /\ pc' = "idle"
    /\ cfg' = BlankCfg
    /\ outputState' = EmptySnapshot("")
    /\ totalProcessedCommits' = 0
    /\ findingKeySet' = {}
    /\ agg' = BlankAgg
    /\ loc' = BlankLoc
    /\ scannedMem' = {}
    /\ loadedScanned' = {}
    /\ seq' = [seq EXCEPT !.killed = TRUE]
    /\ UNCHANGED <<nCommits, stateFile, scannedDisk, watch>>

NextCorrupt ==
    \/ \E force \in BOOLEAN, hasMax \in BOOLEAN, cap \in 0..MaxCap,
          branches \in BranchLists :
            ScanStart(force, hasMax, cap, branches) /\ UNCHANGED watch
    \/ ScanBranchBegin /\ UNCHANGED watch
    \/ CapReached /\ UNCHANGED watch
    \/ ProcessCommit /\ UNCHANGED watch
    \/ SaveCheckpoint /\ UNCHANGED watch
    \/ ExhaustedClear /\ UNCHANGED watch
    \/ ExhaustedPersist /\ UNCHANGED watch
    \/ BranchReturn /\ UNCHANGED watch
    \/ ScanEnd /\ UNCHANGED watch
    \/ KillInPersist

SpecCorrupt == Init /\ [][NextCorrupt]_vars

----------------------------------------------------------------------------
(* scanBranch of src/src/git/GitRepoScanner.ts: the walk always starts at the
   newest commit and breaks when it meets the resume SHA. *)

\* One turn of the branch loop: checkoutBranch, then scanBranch up to its
\* commit loop.
VariantScanBranchBegin ==
    /\ pc = "loop"
    /\ agg.idx <= Len(cfg.branches)
    /\ ~loadThrows(stateFile)
    /\ LET branch == cfg.branches[agg.idx]
           branchState == getBranchState(stateFile, branch)
           resumeSha == resumeShaOf(cfg.forceFullScan, branchState)
           commits == gitLog(branch, nCommits[branch])
       IN /\ stateFile' =
                IF cfg.forceFullScan /\ branchState # << >> /\ branchState[1].incomplete
                THEN clearBranchState(stateFile, branch)
                ELSE stateFile
          /\ loc' = [branch |-> branch,
                     commits |-> commits,
                     i |-> 1,
                     processed |-> 0,
                     max |-> maxOf(cfg, Len(commits)),
                     lastSha |-> resumeSha,
                     resumeSha |-> resumeSha,
                     completedBranch |-> TRUE,
                     findings |-> << >>,
                     reachedPrevious |-> FALSE]
    /\ pc' = "walk"
    /\ UNCHANGED <<nCommits, outputFile, cfg, outputState, totalProcessedCommits,
                   findingKeySet, agg, scannedMem, scannedDisk, loadedScanned,
                   seq, watch>>

\* The commit the loop is at is the resume SHA.
atResumeSha ==
    /\ loc.i <= Len(loc.commits)
    /\ loc.resumeSha # NoSha
    /\ loc.commits[loc.i] = loc.resumeSha

\* Loop body, cap reached (the first test of the body).
VariantCapReached ==
    /\ ~loc.reachedPrevious
    /\ CapReached
    /\ UNCHANGED watch

\* Loop body, second test: reachedPrevious = true; break.
VariantReachedPrevious ==
    /\ pc = "walk"
    /\ ~loc.reachedPrevious
    /\ ~capReached(loc.processed, loc.max)
    /\ atResumeSha
    /\ loc' = [loc EXCEPT !.reachedPrevious = TRUE]
    /\ UNCHANGED <<nCommits, disk, pc, cfg, outputState, totalProcessedCommits,
                   findingKeySet, agg, scannedMem, scannedDisk, loadedScanned,
                   seq, watch>>

\* Loop body from git show to persistOutputSnapshot.
VariantProcessCommit ==
    /\ ~loc.reachedPrevious
    /\ ~atResumeSha
    /\ ProcessCommit
    /\ UNCHANGED watch

\* After the loop, completedBranch holds: clearBranchState.
VariantExhaustedClear ==
    /\ pc = "walk"
    /\ ~(loc.i <= Len(loc.commits)) \/ loc.reachedPrevious
    /\ loc.completedBranch
    /\ stateFile' = clearBranchState(stateFile, loc.branch)
    /\ pc' = "completing"
    /\ UNCHANGED <<nCommits, outputFile, memory, scannedMem, scannedDisk,
                   loadedScanned, seq, watch>>

\* scanBranch returns lastSha, or resumeSha if the walk met it.
VariantBranchReturn ==
    /\ pc = "returning"
    /\ agg' = [aggregateFindings |-> agg.aggregateFindings \o loc.findings,
               totalProcessed |-> agg.totalProcessed + loc.processed,
               branchPlaceholders |->
                   Put(agg.branchPlaceholders, loc.branch,
                       IF loc.reachedPrevious THEN loc.resumeSha ELSE loc.lastSha),
               idx |-> agg.idx + 1]
    /\ loc' = BlankLoc
    /\ pc' = "loop"
    /\ UNCHANGED <<nCommits, disk, cfg, outputState, totalProcessedCommits,
                   findingKeySet, scannedMem, scannedDisk, loadedScanned,
                   seq, watch>>

NextVariant ==
    \/ \E force \in BOOLEAN, hasMax \in BOOLEAN, cap \in 0..MaxCap,
          branches \in BranchLists :
            ScanStart(force, hasMax, cap, branches) /\ UNCHANGED watch
    \/ VariantScanBranchBegin
    \/ VariantCapReached
    \/ VariantReachedPrevious
    \/ VariantProcessCommit
    \/ SaveCheckpoint /\ UNCHANGED watch
    \/ VariantExhaustedClear
    \/ ExhaustedPersist /\ UNCHANGED watch
    \/ VariantBranchReturn
    \/ ScanEnd /\ UNCHANGED watch

SpecVariant == Init /\ [][NextVariant]_vars

----------------------------------------------------------------------------
(* The HTTP server: POST /scan builds a scanner of its own for every request
   and awaits its scan(), so a second request's scan runs between the awaits
   of the first.  The second scanner has its own fields (rival) and the same
   checkpoint file and output file. *)

\* The scanner of the first request is suspended in an await: the statements
\* from gitShow's return to saveBranchState, and from clearBranchState to the
\* snapshot write, run without one.
atAwait == pc \notin {"saving", "completing"}

\* Second request: new GitRepoScanner(...).scan() up to prepareRepo.
RivalScanStart(branch) ==
    /\ rival.pc = "idle"
    /\ atAwait
    /\ LET loaded == loadExistingOutputState(FALSE, RepoUrl, stateFile, outputFile)
       IN /\ rival' = [NoRival EXCEPT
                          !.pc = "loop",
                          !.branch = branch,
                          !.outputState = loaded.outputState,
                          !.findingKeySet = loaded.findingKeySet,
                          !.totalProcessedCommits = loaded.totalProcessedCommits]
          /\ outputFile' = loaded.outputFile
    /\ UNCHANGED <<nCommits, stateFile, pc, memory, scannedMem, scannedDisk,
                   loadedScanned, seq, histories, prep, cli, matcher, walks>>

\* Second request: checkoutBranch, then scanBranch up to its commit loop.
RivalScanBranchBegin ==
    /\ rival.pc = "loop"
    /\ atAwait
    /\ LET branchState == getBranchState(stateFile, rival.branch)
           resumeSha == resumeShaOf(FALSE, branchState)
           commits == gitLog(rival.branch, nCommits[rival.branch])
       IN rival' = [rival EXCEPT !.pc = "walk",
                                 !.commits = commits,
                                 !.i = startIndex(commits, resumeSha)]
    /\ UNCHANGED <<nCommits, disk, pc, memory, scannedMem, scannedDisk,
                   loadedScanned, seq, histories, prep, cli, matcher, walks>>

\* Second request: one turn of the commit loop, from gitShow's return to
\* saveBranchState.
RivalProcessCommit ==
    /\ rival.pc = "walk"
    /\ atAwait
    /\ rival.i <= Len(rival.commits)
    /\ rival.totalProcessedCommits < MaxProcessed
    /\ LET hash == rival.commits[rival.i]
           matches == findLeaks(gitShow(hash), hash, rival.branch)
           total == rival.totalProcessedCommits + 1
           persisted == persistOutputSnapshot(rival.outputState, rival.findingKeySet,
                                              total, RepoUrl, matches,
                                              rival.branch, hash)
       IN /\ rival' = [rival EXCEPT !.outputState = persisted.outputState,
                                    !.findingKeySet = persisted.findingKeySet,
                                    !.totalProcessedCommits = total,
                                    !.i = @ + 1,
                                    !.wrote = TRUE]
          /\ outputFile' = writeOutput(persisted.outputState)
          /\ stateFile' = saveBranchState(stateFile, rival.branch, BranchState(hash))
    /\ UNCHANGED <<nCommits, pc, memory, scannedMem, scannedDisk,
                   loadedScanned, seq, histories, prep, cli, matcher, walks>>

\* Second request: the commit loop is exhausted; clearBranchState, the
\* snapshot writes of scanBranch and of scan(), and the response.
RivalScanEnd ==
    /\ rival.pc = "walk"
    /\ atAwait
    /\ ~(rival.i <= Len(rival.commits))
    /\ LET deleted == [rival.outputState EXCEPT
                          !.branchPlaceholders = Remove(@, rival.branch)]
           persisted == persistOutputSnapshot(deleted, rival.findingKeySet,
                                              rival.totalProcessedCommits, RepoUrl,
                                              << >>, rival.branch, NoSha)
       IN /\ rival' = [rival EXCEPT !.pc = "done",
                                    !.outputState = persisted.outputState,
                                    !.wrote = TRUE]
          /\ outputFile' = writeOutput(persisted.outputState)
          /\ stateFile' = clearBranchState(stateFile, rival.branch)
    /\ UNCHANGED <<nCommits, pc, memory, scannedMem, scannedDisk,
                   loadedScanned, seq, histories, prep, cli, matcher, walks>>

others == <<histories, prep, cli, matcher, walks>>

NextHttp ==
    \/ \E hasMax \in BOOLEAN, cap \in 0..MaxCap :
            ScanStart(FALSE, hasMax, cap, <<"b1">>) /\ UNCHANGED <<rival, others>>
    \/ ScanBranchBegin /\ UNCHANGED <<rival, others>>
    \/ CapReached /\ UNCHANGED <<rival, others>>
    \/ ProcessCommit /\ UNCHANGED <<rival, others>>
    \/ SaveCheckpoint /\ UNCHANGED <<rival, others>>
    \/ ExhaustedClear /\ UNCHANGED <<rival, others>>
    \/ ExhaustedPersist /\ UNCHANGED <<rival, others>>
    \/ BranchReturn /\ UNCHANGED <<rival, others>>
    \/ ScanEnd /\ UNCHANGED <<rival, others>>
    \/ \E branch \in Branches : RivalScanStart(branch)
    \/ RivalScanBranchBegin
    \/ RivalProcessCommit
    \/ RivalScanEnd

SpecHttp == Init /\ [][NextHttp]_vars

----------------------------------------------------------------------------
(* The command-line runner: main() removes the checkpoint file under
   forceFullScan, runs one scan() and writes the returned result to the
   output file.  Every run is a process of its own. *)

\* main() without its unlinkSync.
unlinkStateFileNever(force, file) == file

\* if (forceFullScan && existsSync(stateFile)) unlinkSync(stateFile)
unlinkStateFile(force, file) ==
    IF force /\ file.exists THEN AbsentFile ELSE file

\* main(): the statements before scanner.scan().
MainLaunch(force) ==
    /\ pc = "idle"
    /\ cli.stage \in {"none", "done"}
    /\ stateFile' = unlinkStateFile(force, stateFile)
    /\ cli' = [NoCli EXCEPT !.stage = "launch", !.force = force,
                            !.stateBefore = stateFile]
    /\ UNCHANGED <<nCommits, outputFile, pc, memory, scannedMem, scannedDisk,
                   loadedScanned, seq, histories, prep, rival, matcher, walks>>

\* main(): scanner.scan() is entered with the configured settings.
MainScan(hasMax, cap, branches) ==
    /\ cli.stage = "launch"
    /\ ScanStart(cli.force, hasMax, cap, branches)
    /\ cli' = [cli EXCEPT !.stage = "scanning"]
    /\ UNCHANGED <<histories, prep, rival, matcher, walks>>

\* scanner.scan() returns its result to main(); the snapshot scan() left in
\* the output file is remembered.
MainScanEnd ==
    /\ cli.stage = "scanning"
    /\ ScanEnd
    /\ cli' = [cli EXCEPT !.stage = "write",
                          !.snapshot = outputFile',
                          !.result = [findings |-> agg.aggregateFindings,
                                      processedCommits |-> agg.totalProcessed,
                                      branchPlaceholders |-> agg.branchPlaceholders]]
    /\ UNCHANGED <<histories, prep, rival, matcher, walks>>

\* main(): writeFileSync(outputFile, JSON.stringify(output)).
MainWrite ==
    /\ cli.stage = "write"
    /\ outputFile' = writeOutput([repo |-> RepoUrl,
                                  processedCommits |-> cli.result.processedCommits,
                                  branchPlaceholders |-> cli.result.branchPlaceholders,
                                  findings |-> cli.result.findings])
    /\ cli' = [cli EXCEPT !.stage = "done"]
    /\ UNCHANGED <<nCommits, stateFile, pc, memory, scannedMem, scannedDisk,
                   loadedScanned, seq, histories, prep, rival, matcher, walks>>

NextCli ==
    \/ \E force \in BOOLEAN : MainLaunch(force)
    \/ \E hasMax \in BOOLEAN, cap \in 0..MaxCap, branches \in BranchLists :
            MainScan(hasMax, cap, branches)
    \/ ScanBranchBegin /\ UNCHANGED watch
    \/ CapReached /\ UNCHANGED watch
    \/ ProcessCommit /\ UNCHANGED watch
    \/ SaveCheckpoint /\ UNCHANGED watch
    \/ ExhaustedClear /\ UNCHANGED watch
    \/ ExhaustedPersist /\ UNCHANGED watch
    \/ BranchReturn /\ UNCHANGED watch
    \/ MainScanEnd
    \/ MainWrite

SpecCli == Init /\ [][NextCli]_vars

----------------------------------------------------------------------------
(* scan() runs over an explicit branch list that names a branch more than
   once; walks records, for every scanBranch call of the run, the commits it
   processed. *)

RepeatingLists == {<<"b1", "b1">>, <<"b1", "b2", "b1">>}

DupScanStart(force, hasMax, cap, list) ==
    /\ ScanStart(force, hasMax, cap, getBranchesToScan(list, Branches, "main"))
    /\ walks' = [configured |-> list, seen |-> << >>]
    /\ UNCHANGED <<histories, prep, rival, cli, matcher>>

DupScanBranchBegin ==
    /\ ScanBranchBegin
    /\ walks' = [walks EXCEPT !.seen =
                    Append(@, [branch |-> cfg.branches[agg.idx],
                               commits |-> << >>,
                               resumed |-> loc'.resumeSha # NoSha,
                               capped |-> FALSE])]
    /\ UNCHANGED <<histories, prep, rival, cli, matcher>>

DupProcessCommit ==
    /\ ProcessCommit
    /\ walks' = [walks EXCEPT !.seen[Len(walks.seen)].commits =
                                    Append(@, loc.commits[loc.i])]
    /\ UNCHANGED <<histories, prep, rival, cli, matcher>>

DupCapReached ==
    /\ CapReached
    /\ walks' = [walks EXCEPT !.seen[Len(walks.seen)].capped = TRUE]
    /\ UNCHANGED <<histories, prep, rival, cli, matcher>>

NextDup ==
    \/ \E force \in BOOLEAN, hasMax \in BOOLEAN, cap \in 0..MaxCap,
          list \in RepeatingLists :
            DupScanStart(force, hasMax, cap, list)
    \/ DupScanBranchBegin
    \/ DupCapReached
    \/ DupProcessCommit
    \/ SaveCheckpoint /\ UNCHANGED watch
    \/ ExhaustedClear /\ UNCHANGED watch
    \/ ExhaustedPersist /\ UNCHANGED watch
    \/ BranchReturn /\ UNCHANGED watch
    \/ ScanEnd /\ UNCHANGED watch

SpecDup == Init /\ [][NextDup]_vars

----------------------------------------------------------------------------
(* findLeaks on the text of a diff.  A text is a sequence of characters,
   positions count from 1 (a JavaScript index plus one, 0 for "not found"). *)

\* "\n"
NL == << "\n" >>

\* "diff --git", the separator of split(/^diff --git/m)
DiffSeparator ==
    << "d", "i", "f", "f", " ", "-", "-", "g", "i", "t" >>

\* "+++ b/", the literal part of /\+\+\+ b\/(.+)\n/
NewFileMarker ==
    << "+", "+", "+", " ", "b", "/" >>

\* "unknown"
UnknownFile ==
    << "u", "n", "k", "n", "o", "w", "n" >>

\* The characters of the class [0-9A-Z]
KeyChars ==
    {"0", "1", "2", "3", "4", "5", "6", "7", "8", "9",
     "A", "B", "C", "D", "E", "F", "G", "H", "I", "J", "K", "L", "M",
     "N", "O", "P", "Q", "R", "S", "T", "U", "V", "W", "X", "Y", "Z"}

\* What ^ (with the m flag) follows and what . does not match
LineTerminators == {"\n", "\r"}

\* What trim() removes
WhiteSpace == {" ", "\t", "\n", "\r"}

\* The patterns /AKIA[0-9A-Z]{16}/g and /ASIA[0-9A-Z]{16}/g by their literal
\* prefix; KeyTail characters of the class follow it.
KeyTail == 16

\* pattern.toString()
patternToString(prefix) ==
    IF prefix = PrefixAKIA THEN "/AKIA[0-9A-Z]{16}/g" ELSE "/ASIA[0-9A-Z]{16}/g"

Least(S) == CHOOSE k \in S : \A j \in S : k <= j
Greatest(S) == CHOOSE k \in S : \A j \in S : k >= j

\* text.startsWith(literal, i - 1)
startsWithAt(text, i, literal) ==
    /\ i + Len(literal) - 1 <= Len(text)
    /\ SubSeq(text, i, i + Len(literal) - 1) = literal

\* text.indexOf("\n", from - 1) + 1
indexOfNewline(text, from) ==
    LET S == {k \in from..Len(text) : text[k] = "\n"}
    IN IF S = {} THEN 0 ELSE Least(S)

\* text.lastIndexOf("\n", from - 1) + 1
lastIndexOfNewline(text, from) ==
    LET S == {k \in 1..from : k <= Len(text) /\ text[k] = "\n"}
    IN IF S = {} THEN 0 ELSE Greatest(S)

\* text.trim()
RECURSIVE trim(_)
trim(text) ==
    IF text = << >> THEN text
    ELSE IF Head(text) \in WhiteSpace THEN trim(Tail(text))
    ELSE IF text[Len(text)] \in WhiteSpace THEN trim(SubSeq(text, 1, Len(text) - 1))
    ELSE text

\* extractLine cut at the match instead of at the start of its line.
extractLineFromMatch(block, index) ==
    LET end == indexOfNewline(block, index)
    IN trim(SubSeq(block, index, IF end = 0 THEN Len(block) ELSE end - 1))

\* extractLine(block, index): the line of the block that holds position index.
extractLine(block, index) ==
    LET start == lastIndexOfNewline(block, index) + 1
        end == indexOfNewline(block, index)
    IN trim(SubSeq(block, start, IF end = 0 THEN Len(block) ELSE end - 1))

\* The positions at which /^diff --git/m matches.
separatorAt(text, i) ==
    /\ startsWithAt(text, i, DiffSeparator)
    /\ i = 1 \/ text[i - 1] \in LineTerminators

\* diffText.split(/^diff --git/m), from position from on.
RECURSIVE splitFrom(_, _)
splitFrom(text, from) ==
    LET S == {i \in from..Len(text) : separatorAt(text, i)}
    IN IF S = {}
       THEN << SubSeq(text, from, Len(text)) >>
       ELSE << SubSeq(text, from, Least(S) - 1) >>
                \o splitFrom(text, Least(S) + Len(DiffSeparator))

\* diffText.split(/^diff --git/m).filter(Boolean)
diffBlocks(diffText) ==
    SelectSeq(splitFrom(diffText, 1), LAMBDA piece : piece # << >>)

\* The end of the match of /\+\+\+ b\/(.+)\n/ that starts at i: the position
\* of its "\n", 0 if it does not match there.
fileMatchAt(block, i) ==
    LET first == i + Len(NewFileMarker)
        S == {k \in first..Len(block) : block[k] \in LineTerminators}
    IN IF startsWithAt(block, i, NewFileMarker) /\ S # {}
           /\ Least(S) > first /\ block[Least(S)] = "\n"
       THEN Least(S) ELSE 0

\* fileMatch ? fileMatch[1] : "unknown"
filePathOf(block) ==
    LET S == {i \in 1..Len(block) : fileMatchAt(block, i) # 0}
    IN IF S = {} THEN UnknownFile
       ELSE SubSeq(block, Least(S) + Len(NewFileMarker),
                   fileMatchAt(block, Least(S)) - 1)

\* The pattern matches at position i.
patternAt(block, prefix, i) ==
    /\ startsWithAt(block, i, prefix)
    /\ i + Len(prefix) + KeyTail - 1 <= Len(block)
    /\ \A k \in (i + Len(prefix))..(i + Len(prefix) + KeyTail - 1) :
           block[k] \in KeyChars

\* The while loop over pattern.exec(block): the matches at or after lastIndex.
RECURSIVE execAll(_, _, _)
execAll(block, prefix, lastIndex) ==
    LET S == {i \in lastIndex..Len(block) : patternAt(block, prefix, i)}
    IN IF S = {} THEN << >>
       ELSE << [index |-> Least(S),
                value |-> SubSeq(block, Least(S),
                                 Least(S) + Len(prefix) + KeyTail - 1)] >>
                \o execAll(block, prefix, Least(S) + Len(prefix) + KeyTail)

\* findLeaks without its reset: the search starts where the pattern object
\* was left.
keepLastIndex(lastIndex) == lastIndex

\* pattern.lastIndex = 0
resetLastIndex(lastIndex) == 1

\* The while loop ends with exec returning null, which sets the pattern's
\* lastIndex to 0.
afterLoops(lastIndex, patterns) ==
    [p \in DOMAIN lastIndex |->
        IF p \in Range(patterns) THEN 1 ELSE lastIndex[p]]

\* One pattern.exec(text) by a caller that holds the pattern object: the
\* lastIndex it leaves.
execOnce(text, prefix, lastIndex) ==
    LET matches == execAll(text, prefix, lastIndex)
    IN IF matches = << >> THEN 1
       ELSE matches[1].index + Len(prefix) + KeyTail

\* The findings of one pattern in one block.
findingsOf(block, prefix, lastIndex, commitSha, branch) ==
    LET matches == execAll(block, prefix, resetLastIndex(lastIndex[prefix]))
    IN [k \in 1..Len(matches) |->
           [branch      |-> branch,
            commitSha   |-> commitSha,
            filePath    |-> filePathOf(block),
            leakType    |-> patternToString(prefix),
            leakValue   |-> matches[k].value,
            linePreview |-> extractLine(block, matches[k].index)]]

RECURSIVE overPatterns(_, _, _, _, _)
overPatterns(block, patterns, lastIndex, commitSha, branch) ==
    IF patterns = << >> THEN << >>
    ELSE findingsOf(block, Head(patterns), lastIndex, commitSha, branch)
            \o overPatterns(block, Tail(patterns), lastIndex, commitSha, branch)

RECURSIVE overBlocks(_, _, _, _, _)
overBlocks(blocks, patterns, lastIndex, commitSha, branch) ==
    IF blocks = << >> THEN << >>
    ELSE overPatterns(Head(blocks), patterns, lastIndex, commitSha, branch)
            \o overBlocks(Tail(blocks), patterns,
                          afterLoops(lastIndex, patterns), commitSha, branch)

\* findLeaks(diffText, patterns, commitSha, committer, committedDate, branch),
\* the pattern objects having the given lastIndex values at the call.
findLeaksInText(diffText, patterns, lastIndex, commitSha, branch) ==
    overBlocks(diffBlocks(diffText), patterns, lastIndex, commitSha, branch)

\* The lastIndex values findLeaks leaves in the pattern objects.
lastIndexAfter(diffText, patterns, lastIndex) ==
    IF diffBlocks(diffText) = << >> THEN lastIndex
    ELSE afterLoops(lastIndex, patterns)

\* The texts the matcher is run on.

\* "config.js"
FileConfigJs ==
    << "c", "o", "n", "f", "i", "g", ".", "j", "s" >>

\* "a.env"
FileEnv ==
    << "a", ".", "e", "n", "v" >>

\* '+  accessKeyId: "AKIA1234567890TEST12"'
LineAccessKey ==
    << "+", " ", " ", "a", "c", "c", "e", "s", "s", "K", "e", "y", "I", "d",
       ":", " ", "\"", "A", "K", "I", "A", "1", "2", "3", "4", "5", "6", "7",
       "8", "9", "0", "T", "E", "S", "T", "1", "2", "\"" >>

\* 'AKIA1234567890TEST12'
AccessKey ==
    << "A", "K", "I", "A", "1", "2", "3", "4", "5", "6", "7", "8", "9", "0",
       "T", "E", "S", "T", "1", "2" >>

\* '+key=AKIA1234567890TEST1': one character short of a key
LineShortKey ==
    << "+", "k", "e", "y", "=", "A", "K", "I", "A", "1", "2", "3", "4", "5",
       "6", "7", "8", "9", "0", "T", "E", "S", "T", "1" >>

\* '+AKIA1234567890TEST12AKIA1234567890TEST12 ': two keys, a trailing blank
LineTwoKeys ==
    << "+", "A", "K", "I", "A", "1", "2", "3", "4", "5", "6", "7", "8", "9",
       "0", "T", "E", "S", "T", "1", "2", "A", "K", "I", "A", "1", "2", "3",
       "4", "5", "6", "7", "8", "9", "0", "T", "E", "S", "T", "1", "2", " " >>

\* '-old=ASIA1234567890TEST12': a removed line with a temporary key
LineRemoved ==
    << "-", "o", "l", "d", "=", "A", "S", "I", "A", "1", "2", "3", "4", "5",
       "6", "7", "8", "9", "0", "T", "E", "S", "T", "1", "2" >>

\* '@@ -0,0 +1 @@'
HunkHeader ==
    << "@", "@", " ", "-", "0", ",", "0", " ", "+", "1", " ", "@", "@" >>

\* 'commit r1'
CommitMessage ==
    << "c", "o", "m", "m", "i", "t", " ", "r", "1" >>

MaxLines == 2
DiffLines == {LineAccessKey, LineShortKey, LineTwoKeys, LineRemoved}
DiffFiles == {FileConfigJs, FileEnv}
PatternLists == {<< PrefixAKIA >>, << PrefixAKIA, PrefixASIA >>}

RECURSIVE joinLines(_)
joinLines(lines) ==
    IF lines = << >> THEN << >>
    ELSE IF Len(lines) = 1 THEN Head(lines)
    ELSE Head(lines) \o NL \o joinLines(Tail(lines))

\* The output of git show --unified=0 --patch for a commit that changes one
\* file: the commit message (or nothing), the block header, the new-file
\* marker, a hunk header and the changed lines, with or without a final
\* newline.
diffOf(message, file, lines, finalNewline) ==
    (IF message THEN CommitMessage \o NL ELSE << >>)
    \o joinLines(<< DiffSeparator \o << " ", "a", "/" >> \o file
                                  \o << " ", "b", "/" >> \o file,
                    NewFileMarker \o file,
                    HunkHeader >> \o lines)
    \o (IF finalNewline THEN NL ELSE << >>)

\* findLeaks is called with a diff text and a pattern list.
MatcherInput(message, file, lines, finalNewline, patterns) ==
    /\ matcher.stage = "none"
    /\ matcher' = [stage |-> "called",
                   diffText |-> diffOf(message, file, lines, finalNewline),
                   patterns |-> patterns,
                   findings |-> << >>,
                   lastIndex |-> matcher.lastIndex,
                   entered |-> matcher.lastIndex]
    /\ UNCHANGED <<nCommits, disk, pc, memory, scannedMem, scannedDisk,
                   loadedScanned, seq, histories, prep, rival, cli, walks>>

\* findLeaks returns.
MatcherReturn ==
    /\ matcher.stage = "called"
    /\ matcher' = [matcher EXCEPT
                      !.stage = "returned",
                      !.findings = findLeaksInText(matcher.diffText,
                                                   matcher.patterns,
                                                   matcher.lastIndex, "r1", "b1"),
                      !.lastIndex = lastIndexAfter(matcher.diffText,
                                                   matcher.patterns,
                                                   matcher.lastIndex)]
    /\ UNCHANGED <<nCommits, disk, pc, memory, scannedMem, scannedDisk,
                   loadedScanned, seq, histories, prep, rival, cli, walks>>

NextLeaks ==
    \/ \E message \in BOOLEAN, file \in DiffFiles, finalNewline \in BOOLEAN,
          patterns \in PatternLists, n \in 0..MaxLines :
            \E lines \in [1..n -> DiffLines] :
                MatcherInput(message, file, lines, finalNewline, patterns)
    \/ MatcherReturn

SpecLeaks == Init /\ [][NextLeaks]_vars

\* findLeaks called on pattern objects a caller has used before, and called
\* again after it has returned.

\* A caller runs pattern.exec on a text of its own.
MatcherOtherUse(prefix, text) ==
    /\ matcher.stage = "none"
    /\ matcher' = [matcher EXCEPT
                      !.lastIndex[prefix] = execOnce(text, prefix, @)]
    /\ UNCHANGED <<nCommits, disk, pc, memory, scannedMem, scannedDisk,
                   loadedScanned, seq, histories, prep, rival, cli, walks>>

\* The caller is about to call findLeaks again with the same pattern objects.
MatcherAgain ==
    /\ matcher.stage = "returned"
    /\ matcher' = [NoMatcher EXCEPT !.lastIndex = matcher.lastIndex]
    /\ UNCHANGED <<nCommits, disk, pc, memory, scannedMem, scannedDisk,
                   loadedScanned, seq, histories, prep, rival, cli, walks>>

NextLeaksUsed ==
    \/ \E text \in {AccessKey, diffOf(FALSE, FileEnv, << LineAccessKey >>, TRUE)} :
            MatcherOtherUse(PrefixAKIA, text)
    \/ \E message \in BOOLEAN, patterns \in PatternLists, n \in 0..MaxLines :
            \E lines \in [1..n -> DiffLines] :
                MatcherInput(message, FileEnv, lines, TRUE, patterns)
    \/ MatcherReturn
    \/ MatcherAgain

SpecLeaksUsed == Init /\ [][NextLeaksUsed]_vars

----------------------------------------------------------------------------
(* Properties *)

History(b) == gitLog(b, nCommits[b])

KeyFields(f) ==
    <<f.branch, f.commitSha, f.filePath, f.leakType, f.leakValue, f.linePreview>>

NoDuplicates(findings) ==
    \A m, n \in DOMAIN findings :
        m # n => KeyFields(findings[m]) # KeyFields(findings[n])

\* The findings one uncapped scan of branch b leaves in an empty snapshot:
\* the commits of its history, newest first, each matched and added.
RECURSIVE ScanAll(_, _, _)
ScanAll(b, commits, acc) ==
    IF commits = << >>
    THEN acc.findings
    ELSE ScanAll(b, Tail(commits),
                 addFindings(acc.findings, acc.keys,
                             findLeaks(gitShow(Head(commits)), Head(commits), b)))

UncappedFindings(b) == ScanAll(b, History(b), [findings |-> << >>, keys |-> {}])

\* No kill, no forced scan, no second branch, no history change since the
\* snapshot was last reset.
Clean == ~seq.killed /\ ~seq.disturbed

BranchCompleted == pc = "returning" /\ loc.completedBranch
BranchCapped == pc = "returning" /\ ~loc.completedBranch

\* C1 (resume correctness): when capped and resumed scans of the one branch
\* with a fixed history have completed it, the output file holds the same set
\* of findings as one uncapped scan and processedCommits equals the number of
\* commits of the branch.
C1_ResumeCorrectness ==
    /\ (Clean /\ BranchCompleted) =>
            /\ Range(outputFile.findings) = Range(UncappedFindings(loc.branch))
            /\ outputFile.processedCommits = nCommits[loc.branch]
    /\ (Clean /\ pc = "idle" /\ ~stateFile.exists /\ outputFile.processedCommits > 0) =>
            /\ Range(outputFile.findings) = Range(UncappedFindings("b1"))
            /\ outputFile.processedCommits = nCommits["b1"]

\* A resumed walk completes a three-commit branch in a clean sequence.
C1_Witness ==
    /\ Clean /\ BranchCompleted
    /\ loc.resumeSha # NoSha /\ loc.processed > 0
    /\ nCommits[loc.branch] = 3
    /\ outputFile.findings # << >>

\* C2 (completion soundness): when a branch is marked complete, every commit
\* of the list the provider returned in this run has been matched in this run
\* or in a run whose findings the loaded snapshot holds.
C2_CompletionSoundness ==
    BranchCompleted =>
        \A k \in DOMAIN loc.commits : <<loc.branch, loc.commits[k]>> \in scannedMem

\* C3 (no re-scan on resume): in a scan without force-full no commit the
\* loaded snapshot already counts for the branch is processed again.
C3_NoRescanOnResume ==
    (pc = "saving" /\ ~cfg.forceFullScan) =>
        <<loc.branch, loc.lastSha>> \notin loadedScanned

\* C4 (data before checkpoint): at every kill point the commit a checkpoint
\* entry on disk points at is accounted for in the output file on disk.
C4_DataBeforeCheckpoint ==
    \A b \in DOMAIN load(stateFile) :
        <<b, load(stateFile)[b].lastProcessedSha>> \in scannedDisk

\* C5 (in-flight commit never counted): with kills allowed, a fixed history,
\* one branch and no forced scan, when the branch completes processedCommits
\* equals the number of commits of the branch.
C5_InFlightNeverCounted ==
    (~seq.disturbed /\ BranchCompleted) =>
        outputFile.processedCommits = nCommits[loc.branch]

\* C6 (no leak reported twice): the findings of the output file never hold
\* two findings equal in the six key fields.
C6_NoLeakTwice ==
    outputFile.exists => NoDuplicates(outputFile.findings)

\* A commit with findings was matched a second time into the same snapshot.
C6_Witness ==
    /\ outputFile.findings # << >>
    /\ outputFile.processedCommits > Cardinality(scannedDisk)
    /\ \E p \in scannedDisk : gitShow(p[2]) # << >>

\* C7 (dedup key completeness): a finding is dropped only if the snapshot
\* holds one equal to it in the six key fields, so every finding of every
\* commit matched into the snapshot is in it, once.
C7_DedupKeyCompleteness ==
    /\ NoDuplicates(outputState.findings)
    /\ \A p \in scannedMem :
          \A f \in Range(findLeaks(gitShow(p[2]), p[2], p[1])) :
              \E k \in DOMAIN outputState.findings :
                  KeyFields(outputState.findings[k]) = KeyFields(f)

\* C8 (checkpoint lifecycle on completion): after a branch finished as
\* Exhausted the store has no entry for it and the output file no placeholder.
C8_CompletionClears ==
    BranchCompleted =>
        /\ getBranchState(stateFile, loc.branch) = << >>
        /\ loc.branch \notin DOMAIN outputFile.branchPlaceholders

\* A branch completes after commits were checkpointed, while the store still
\* holds another branch's entry.
C8_Witness ==
    /\ BranchCompleted
    /\ loc.processed > 0
    /\ stateFile.exists

\* C9 as stated: after a stop at the cap the store holds an entry for the
\* branch, incomplete, at the last commit matched, for every cap value.
C9_EarlyStopEntry ==
    BranchCapped =>
        /\ getBranchState(stateFile, loc.branch) # << >>
        /\ getBranchState(stateFile, loc.branch)[1].incomplete
        /\ <<loc.branch, getBranchState(stateFile, loc.branch)[1].lastProcessedSha>>
               \in scannedDisk

\* C9 amended: after a stop at a cap of at least 1 the store holds the entry
\* {incomplete: true, lastProcessedSha: the last commit walked and matched};
\* after a stop at a cap of 0 nothing was matched and the entry is the one
\* the walk resumed from, if any.
C9_EarlyStopEntryAmended ==
    /\ (BranchCapped /\ loc.max >= 1) =>
            /\ loc.processed >= 1
            /\ getBranchState(stateFile, loc.branch) =
                   << [lastProcessedSha |-> loc.commits[loc.i - 1], incomplete |-> TRUE] >>
            /\ <<loc.branch, loc.commits[loc.i - 1]>> \in scannedDisk
    /\ (BranchCapped /\ loc.max <= 0) =>
            /\ loc.processed = 0
            /\ getBranchState(stateFile, loc.branch) =
                   IF loc.resumeSha # NoSha
                   THEN << [lastProcessedSha |-> loc.resumeSha, incomplete |-> TRUE] >>
                   ELSE << >>

\* A resumed walk stops at a cap of at least 1.
C9_Witness ==
    BranchCapped /\ loc.max >= 1 /\ loc.resumeSha # NoSha

\* C10 as stated: whenever the commits processed in a walk reach the
\* configured maximum, the branch is not completed and its entry stays, for
\* every history length.
C10_CappedStops ==
    (pc = "returning" /\ cfg.hasMax /\ loc.max >= 1 /\ loc.processed >= loc.max) =>
        /\ ~loc.completedBranch
        /\ getBranchState(stateFile, loc.branch) # << >>

\* C10 amended: no commit is processed once the maximum is reached; when it
\* is reached with a commit of the list still to walk, the branch is not
\* completed and its entry stays at the last processed commit, incomplete;
\* when it is reached at the last commit of the list, the branch is completed
\* and its entry cleared.
C10_CappedStopsAmended ==
    /\ pc = "saving" => loc.processed <= loc.max
    /\ (pc = "returning" /\ loc.max >= 1 /\ loc.processed >= loc.max
            /\ loc.i <= Len(loc.commits)) =>
            /\ ~loc.completedBranch
            /\ getBranchState(stateFile, loc.branch) =
                   << [lastProcessedSha |-> loc.lastSha, incomplete |-> TRUE] >>
    /\ (pc = "returning" /\ ~(loc.i <= Len(loc.commits))) =>
            /\ loc.completedBranch
            /\ getBranchState(stateFile, loc.branch) = << >>

\* The maximum is reached with commits left: the walk stops, branch pending.
C10_Witness ==
    /\ pc = "returning" /\ ~loc.completedBranch
    /\ loc.max >= 1 /\ loc.processed = loc.max
    /\ loc.i <= Len(loc.commits)

\* C11 (per-run cap): in one scan() run with a configured maximum the commits
\* processed, summed over the branches scanned so far and the branch being
\* walked, never exceed maxCommitsPerRun.
C11_PerRunCap ==
    (pc # "idle" /\ cfg.hasMax) =>
        agg.totalProcessed + loc.processed <= cfg.maxCommitsPerRun

\* C12 (idempotent dedup): when a scan on empty state is followed, with the
\* history and the configuration unchanged, by the same scan with
\* forceFullScan, the findings of the output file after the second scan are,
\* as a set, the findings the first scan left, none of them twice.
C12_IdempotentDedup ==
    firstRun.phase = "secondDone" =>
        /\ Range(outputFile.findings) = firstRun.findings
        /\ NoDuplicates(outputFile.findings)

\* Both scans stopped at the cap with findings: the forced scan discarded the
\* checkpoint the first one left and wrote it again.
C12_Witness ==
    /\ firstRun.phase = "secondDone"
    /\ firstRun.findings # {}
    /\ stateFile.exists

\* C13 (force-full-scan): in a forced scan, when scanBranch starts to walk a
\* branch the store holds no entry for it, whatever the entry's fields were,
\* no resume boundary is set and the walk starts at the newest commit.
C13_ForceDiscards ==
    (pc = "walk" /\ cfg.forceFullScan /\ loc.processed = 0) =>
        /\ getBranchState(stateFile, loc.branch) = << >>
        /\ loc.resumeSha = NoSha
        /\ loc.i = 1

\* C14 (resume-boundary-missing recovery): when the checkpointed
\* lastProcessedSha of a branch is not in the commit list, scanBranch does
\* not fail: it starts to walk, at the newest commit of the list, and the
\* first step of the walk is that commit or the stop at the cap.
C14_BoundaryMissing ==
    LET entry == getBranchState(stateFile, loc.branch)
    IN (pc = "walk" /\ loc.processed = 0 /\ ~cfg.forceFullScan
          /\ entry # << >> /\ entry[1].lastProcessedSha \notin Range(loc.commits)) =>
            /\ loc.resumeSha = entry[1].lastProcessedSha
            /\ loc.i = 1
            /\ loc.i <= Len(loc.commits)

\* A resumed walk whose boundary was force-pushed away has processed the
\* newest commit of the list.
C14_Witness ==
    /\ pc = "saving"
    /\ loc.resumeSha # NoSha
    /\ loc.resumeSha \notin Range(loc.commits)
    /\ loc.processed = 1
    /\ loc.lastSha = loc.commits[1]

\* C15 (checkpoint durability): once saveBranchState(b, s) has returned and
\* until the next call that writes through the store, getBranchState(b) read
\* from the file returns exactly s, whoever reads it and also after the
\* process was killed.
C15_Durability ==
    storeCall.op = "saveBranchState" =>
        getBranchState(stateFile, storeCall.branch) = <<storeCall.value>>

\* The scanner checkpointed a commit next to another branch's entry without
\* lastProcessedSha, then the process was killed.
C15_Witness ==
    /\ storeCall.op = "saveBranchState"
    /\ storeCall.scanStarted
    /\ pc = "idle"
    /\ seq.killed
    /\ \E b \in DOMAIN load(stateFile) : load(stateFile)[b].lastProcessedSha = NoSha

\* C16 (tolerant read): a checkpoint file that cannot be parsed is read as an
\* empty store, so no scan() over such a file is rejected.
C16_TolerantRead ==
    loadThrows(stateFile) => pc # "rejected"

\* C17 (store frame): after clearBranchState(b) or saveBranchState(b, s) every
\* other branch reads from the store what it read before the call.
C17_StoreFrame ==
    storeCall.op \in {"saveBranchState", "clearBranchState"} =>
        \A other \in Branches \ {storeCall.branch} :
            getBranchState(stateFile, other) = getBranchState(storeCall.before, other)

\* A branch's entry was cleared while the other branch had an entry.
C17_Witness ==
    /\ storeCall.op = "clearBranchState"
    /\ getBranchState(storeCall.before, storeCall.branch) # << >>
    /\ \E other \in Branches \ {storeCall.branch} :
            getBranchState(stateFile, other) # << >>

\* C18 (no empty checkpoint file): after any sequence of saveBranchState,
\* clearBranchState and clearAll calls the checkpoint file is absent or holds
\* at least one branch entry.
C18_NoEmptyFile ==
    stateFile.exists => DOMAIN load(stateFile) # {}

\* clearBranchState removed the last entry of the file, and the file with it.
C18_Witness ==
    /\ storeCall.op = "clearBranchState"
    /\ storeCall.before.exists
    /\ ~stateFile.exists

\* C19 as stated: whenever no scan is running, a branch has an entry in the
\* checkpoint store if and only if its most recent scan attempt did not
\* finish, and every entry has incomplete = true.
C19_EntryIffIncomplete ==
    pc = "idle" =>
        \A b \in Branches :
            /\ getBranchState(stateFile, b) # << >> <=> attempt[b] = "unfinished"
            /\ getBranchState(stateFile, b) # << >> =>
                    getBranchState(stateFile, b)[1].incomplete

\* C19 amended: in every state, a branch that has an entry is a branch whose
\* most recent scan attempt did not finish, and the entry has incomplete =
\* true and a lastProcessedSha; a branch whose most recent attempt finished
\* has no entry.
C19_EntryOnlyIfIncomplete ==
    \A b \in Branches :
        /\ getBranchState(stateFile, b) # << >> =>
                /\ attempt[b] = "unfinished"
                /\ getBranchState(stateFile, b)[1].incomplete
                /\ getBranchState(stateFile, b)[1].lastProcessedSha # NoSha
        /\ attempt[b] = "finished" => getBranchState(stateFile, b) = << >>

\* Between scans one branch has finished and has no entry while the other
\* stopped early and has one.
C19_Witness ==
    /\ pc = "idle"
    /\ \E b \in Branches : attempt[b] = "finished" /\ getBranchState(stateFile, b) = << >>
    /\ \E b \in Branches : attempt[b] = "unfinished" /\ getBranchState(stateFile, b) # << >>

\* C20 (result placeholders): when scan() returns, branchPlaceholders has a
\* key only for a branch that is still incomplete after the run: a branch
\* whose walk this run finished is not a key of it.
C20_ResultPlaceholders ==
    (pc = "loop" /\ ~(agg.idx <= Len(cfg.branches))) =>
        \A b \in DOMAIN agg.branchPlaceholders : attempt[b] # "finished"

\* C21 (result findings de-duplicated): when scan() returns, the findings
\* sequence of its result holds no two findings equal in the six key fields.
C21_ResultDeduplicated ==
    (pc = "loop" /\ ~(agg.idx <= Len(cfg.branches))) =>
        NoDuplicates(agg.aggregateFindings)

\* C22 (default-branch fallback): when the preferred default branch cannot be
\* checked out and the remote HEAD points at branch X,
\* ensureDefaultBranchCheckedOut throws nothing, and once it has returned X is
\* checked out and recorded as the default branch.
C22_DefaultFallback ==
    (~canCheckout(prep.preferred, prep.remote) /\ prep.head # NoBranch) =>
        /\ prep.failedAt # "default"
        /\ prep.stage = "fetch" =>
                /\ prep.checkedOut = prep.head
                /\ prep.defaultBranch = prep.head

\* The preferred branch "main" is missing, HEAD points at the second of two
\* remote branches, which is now checked out.
C22_Witness ==
    /\ prep.stage = "fetch"
    /\ prep.preferred = "main"
    /\ prep.remote = {"b1", "b2"}
    /\ prep.head = "b2"
    /\ prep.checkedOut = "b2"

\* The preferred branch cannot be checked out, the remote HEAD cannot be read
\* and the remote lists no branch.
NothingUsable ==
    /\ ~canCheckout(prep.preferred, prep.remote)
    /\ prep.head = NoBranch
    /\ remoteBranches(prep.remote) = << >>

\* C23 (NoBranchAvailable): default-branch resolution fails with
\* NoBranchAvailable only when the preferred branch, the remote HEAD and the
\* branch listing all yield nothing, and in that case it fails with that
\* error and no other.
C23_NoBranchAvailable ==
    /\ prep.error = "NoBranchAvailable" => NothingUsable
    /\ (prep.failedAt = "default" /\ NothingUsable) =>
            prep.error = "NoBranchAvailable"

\* C24 (BranchNotFound aborts the scan): a listed branch that is neither
\* checked out directly nor present as origin/<branch> is never scanned;
\* checkoutBranch fails with a status 404 error, scan() rejects with it, no
\* later branch is scanned, and the checkpoint file and the snapshot file stay
\* as they were when the error was raised.
C24_BranchNotFoundAborts ==
    /\ pc \in {"walk", "saving", "completing", "returning"} =>
            (canCheckout(loc.branch, prep.remote)
                \/ hasRemoteBranch(loc.branch, prep.remote))
    /\ prep.error = "BranchNotFound" =>
            /\ statusOf(prep.error) = 404
            /\ prep.failedAt = "checkout"
            /\ pc \in {"rejected", "idle"}
            /\ disk = prep.diskAtError

\* The second listed branch is missing on the remote; the first one was
\* scanned up to the cap and has left a checkpoint entry and a snapshot.
C24_Witness ==
    /\ prep.error = "BranchNotFound"
    /\ pc = "rejected"
    /\ prep.list = <<"b1", "b2">>
    /\ getBranchState(stateFile, "b1") # << >>
    /\ outputFile.exists
    /\ outputFile.processedCommits > 0

\* C25 (guaranteed workspace cleanup): with removeCloneOnExit set, once
\* scan() has ended, by returning or by failing, after the temporary
\* workspace was created, the workspace directory has been removed.
C25_WorkspaceRemoved ==
    (prep.stage = "done" /\ prep.removeCloneOnExit /\ prep.workDir # "none") =>
        prep.workDir = "removed"

\* C26 (single active traversal): there is no state in which two scans of one
\* process, both started and neither ended, have both written to the one
\* checkpoint file and output file; in particular the output file never
\* holds less than what a traversal under way has written to it.
C26_SingleTraversal ==
    ~(/\ pc \in {"walk", "returning", "loop"}
      /\ loc.processed + agg.totalProcessed > 0
      /\ rival.pc = "walk"
      /\ rival.wrote)

\* C27 (full report on disk): once the command-line runner has finished a
\* run, the output file holds the findings of every commit processed so far,
\* those of earlier runs that this run resumed included, and the cumulative
\* processedCommits.
C27_FullReport ==
    cli.stage = "done" =>
        /\ \A c \in scannedDisk :
               Range(findLeaks(gitShow(c[2]), c[2], c[1])) \subseteq
                   Range(outputFile.findings)
        /\ outputFile.processedCommits = cli.snapshot.processedCommits

C28_MatchExtraction ==
    (/\ matcher.stage = "returned"
     /\ matcher.patterns = << PrefixAKIA >>
     /\ \E finalNewline \in BOOLEAN :
            matcher.diffText =
                diffOf(FALSE, FileConfigJs, << LineAccessKey >>, finalNewline))
    => /\ Len(matcher.findings) = 1
       /\ matcher.findings[1].filePath = FileConfigJs
       /\ matcher.findings[1].leakValue = AccessKey
       /\ matcher.findings[1].linePreview = LineAccessKey

\* findLeaks has returned from the diff of the claim, which ends with the
\* added line.
C28_Witness ==
    /\ matcher.stage = "returned"
    /\ matcher.patterns = << PrefixAKIA >>
    /\ matcher.diffText = diffOf(FALSE, FileConfigJs, << LineAccessKey >>, FALSE)
    /\ matcher.findings # << >>

\* The branch loop of scan() has ended.
LoopEnded == pc = "loop" /\ ~(agg.idx <= Len(cfg.branches))

\* Every entry of the configured list was scanned, in the order of the list.
ScannedAsListed ==
    /\ cfg.branches = walks.configured
    /\ Len(walks.seen) = Len(walks.configured)
    /\ \A k \in 1..Len(walks.seen) : walks.seen[k].branch = walks.configured[k]

\* Occurrences i < j of one branch with no occurrence of it between them.
NextOccurrence(i, j) ==
    /\ i < j
    /\ walks.seen[i].branch = walks.seen[j].branch
    /\ \A k \in (i + 1)..(j - 1) : walks.seen[k].branch # walks.seen[i].branch

\* C30 (explicit branch list): a non-empty configured list is scanned as it
\* is, in its order and with its duplicates, and the second scan of a branch
\* listed twice walks the same commits as the first.
C30_ExplicitList ==
    LoopEnded =>
        /\ ScannedAsListed
        /\ \A i, j \in 1..Len(walks.seen) :
               NextOccurrence(i, j) =>
                   walks.seen[j].commits = walks.seen[i].commits

\* C30 as it holds: the list is scanned as it is; the second scan of a
\* branch walks the same commits as the first if the run is forced or the
\* first started at the newest commit and was not stopped by the cap, and
\* walks none of the first's commits if the run is unforced and the first was
\* stopped by the cap.
C30_ExplicitListAmended ==
    LoopEnded =>
        /\ ScannedAsListed
        /\ \A i, j \in 1..Len(walks.seen) :
               NextOccurrence(i, j) =>
                   /\ (cfg.forceFullScan
                          \/ (~walks.seen[i].resumed /\ ~walks.seen[i].capped))
                        => walks.seen[j].commits = walks.seen[i].commits
                   /\ (~cfg.forceFullScan /\ walks.seen[i].capped)
                        => Range(walks.seen[j].commits)
                              \cap Range(walks.seen[i].commits) = {}

\* Both scans of the branch listed twice have walked its two commits.
C30_Witness ==
    /\ LoopEnded
    /\ walks.configured = <<"b1", "b1">>
    /\ Len(walks.seen) = 2
    /\ Len(walks.seen[1].commits) = 2
    /\ walks.seen[2].commits = walks.seen[1].commits

\* C31 (stateless matching): the findings findLeaks returns are those it
\* returns for the same diff and patterns with pattern objects never used
\* before, whatever earlier use has left in the lastIndex of the pattern
\* objects; two calls with the same arguments return the same findings in
\* the same order.
C31_StatelessMatching ==
    matcher.stage = "returned" =>
        /\ matcher.findings =
               findLeaksInText(matcher.diffText, matcher.patterns,
                               FreshLastIndex, "r1", "b1")
        /\ \A p \in Range(matcher.patterns) :
               diffBlocks(matcher.diffText) # << >> => matcher.lastIndex[p] = 1

\* findLeaks has returned a finding of a pattern whose lastIndex a caller
\* had left behind the place of the match.
C31_Witness ==
    /\ matcher.stage = "returned"
    /\ matcher.entered[PrefixAKIA] >= Len(matcher.diffText) - 1
    /\ matcher.diffText = diffOf(FALSE, FileEnv, << LineAccessKey >>, TRUE)
    /\ matcher.findings # << >>

\* C32 (failure during the walk): when git show fails for commit c, scan()
\* rejects; c is neither counted nor checkpointed; the output file on disk is
\* the snapshot as of the last fully processed commit and the checkpoint
\* entry of the branch names that commit; and the next run without
\* force-full that scans the branch begins its walk at c.
C32_FailureDuringWalk ==
    /\ (pc = "rejected" /\ prep.failedAt = "show") =>
            /\ disk = prep.diskAtError
            /\ outputFile = writeOutput(outputState)
            /\ outputFile.processedCommits = totalProcessedCommits
            /\ \A e \in Range(getBranchState(stateFile, prep.failedBranch)) :
                   e.lastProcessedSha # prep.failedCommit
            /\ loc.processed > 0 =>
                   /\ getBranchState(stateFile, loc.branch) = <<BranchState(loc.lastSha)>>
                   /\ loc.branch \in DOMAIN outputFile.branchPlaceholders
                   /\ outputFile.branchPlaceholders[loc.branch] = loc.lastSha
    /\ (/\ prep.since = "next"
        /\ ~cfg.forceFullScan
        /\ pc = "walk"
        /\ loc.branch = prep.failedBranch
        /\ loc.processed = 0) =>
            /\ loc.i <= Len(loc.commits)
            /\ loc.commits[loc.i] = prep.failedCommit

\* The run after a failure at the second commit of a branch resumes there
\* from the checkpoint of the first.
C32_Witness ==
    /\ prep.since = "next"
    /\ ~cfg.forceFullScan
    /\ pc = "walk"
    /\ loc.branch = prep.failedBranch
    /\ loc.processed = 0
    /\ loc.resumeSha # NoSha
    /\ loc.commits[loc.i] = prep.failedCommit

\* C33 (corrupt snapshot recovery): a scan that starts with force-full off,
\* the checkpoint file present and an output file that does not parse is not
\* rejected, and until it first writes the output file it works on an empty
\* snapshot: no findings, processedCommits 0, no placeholders.
C33_CorruptSnapshotRecovery ==
    /\ pc # "rejected"
    /\ (pc # "idle" /\ ~outputFile.parses) =>
            /\ stateFile.exists /\ ~cfg.forceFullScan
            /\ outputState = EmptySnapshot(cfg.repoUrl)
            /\ totalProcessedCommits = 0
            /\ findingKeySet = {}

\* A resumed walk has begun over an output file that does not parse.
C33_Witness ==
    /\ pc = "walk"
    /\ ~outputFile.parses
    /\ outputFile.findings # << >>
    /\ stateFile.exists
    /\ ~cfg.forceFullScan
    /\ loc.resumeSha # NoSha

\* C34 (resume boundary in src/src/git/GitRepoScanner.ts): when a resumed walk
\* has stopped at the resume SHA and the branch is marked complete, every
\* commit at or older than the resume SHA was processed in a prior run.
C34_ResumeBoundary ==
    (pc = "completing" /\ loc.reachedPrevious) =>
        \A k \in loc.i..Len(loc.commits) :
            <<loc.branch, loc.commits[k]>> \in loadedScanned


----------------------------------------------------------------------------
(* scan() invoked again and again with one configuration: forceFullScan     *)
(* off, a cap of at least 1 (or none) and one branch list, on a history     *)
(* that does not change, and no run interrupted                             *)

\* The runs one pass over a branch of n commits takes: a capped run stops at
\* the top of the iteration that follows its last permitted commit, a run
\* that walks off the end of the list completes the branch.
runsOfPass(n, hasMax, cap) == IF hasMax THEN (n + cap - 1) \div cap ELSE 1

\* The first run after which every listed branch has completed in that very
\* run: the least common multiple of the branches' passes.
runsToSettle(branches, hasMax, cap) ==
    LET pass(b) == runsOfPass(nCommits[b], hasMax, cap)
        all == {pass(b) : b \in Range(branches)}
        top == MaxCommits * (MaxCommits + MaxCommitsOther)
    IN CHOOSE k \in 1..top :
          /\ \A p \in all : k % p = 0
          /\ \A j \in 1..(k - 1) : \E p \in all : j % p # 0

RECURSIVE commitsUntilSettled(_, _, _, _)
commitsUntilSettled(branches, runs, hasMax, cap) ==
    IF branches = << >> THEN 0
    ELSE nCommits[Head(branches)]
            * (runs \div runsOfPass(nCommits[Head(branches)], hasMax, cap))
         + commitsUntilSettled(Tail(branches), runs, hasMax, cap)

\* The snapshot's counter keeps counting from run to run while the
\* checkpoint file exists: only configurations whose runs fit under the
\* bound of the counter are started.
fitsCounter(branches, hasMax, cap) ==
    commitsUntilSettled(branches, runsToSettle(branches, hasMax, cap),
                        hasMax, cap) <= MaxProcessed

\* The checkpoint store has no entries and every commit of every listed
\* branch has been matched into the snapshot.
settled(branches) ==
    /\ load(stateFile) = EmptyMap
    /\ \A b \in Range(branches) : \A k \in 1..nCommits[b] :
            <<b, ShaOf(b, k)>> \in scannedDisk

RepeatFirstStart(hasMax, cap, branches) ==
    /\ firstRun.phase = "none"
    /\ hasMax => cap >= 1
    /\ fitsCounter(branches, hasMax, cap)
    /\ ScanStart(FALSE, hasMax, cap, branches)
    /\ firstRun' = [phase |-> "repeating", force |-> FALSE, hasMax |-> hasMax,
                    cap |-> cap, branches |-> branches, findings |-> {}]
    /\ UNCHANGED <<attempt, storeCall, parts, ledger>>

RepeatNextStart ==
    /\ firstRun.phase = "repeating"
    /\ ~settled(firstRun.branches)
    /\ ScanStart(FALSE, firstRun.hasMax, firstRun.cap, firstRun.branches)
    /\ UNCHANGED watch

NextRepeat ==
    \/ \E hasMax \in BOOLEAN, cap \in 0..MaxCap, branches \in BranchLists :
            RepeatFirstStart(hasMax, cap, branches)
    \/ RepeatNextStart
    \/ ScanBranchBegin /\ UNCHANGED watch
    \/ CapReached /\ UNCHANGED watch
    \/ ProcessCommit /\ UNCHANGED watch
    \/ SaveCheckpoint /\ UNCHANGED watch
    \/ ExhaustedClear /\ UNCHANGED watch
    \/ ExhaustedPersist /\ UNCHANGED watch
    \/ BranchReturn /\ UNCHANGED watch
    \/ ScanEnd /\ UNCHANGED watch

\* The caller keeps invoking scan() and every run is left to run to its end.
SpecRepeat == Init /\ [][NextRepeat]_vars /\ WF_vars(NextRepeat)

\* C35: with a fixed history, a cap of at least 1 and forceFullScan off,
\* repeatedly invoking scan() on the same branch list eventually reaches a
\* run after which the checkpoint store has no entries and every commit of
\* every listed branch has been processed at least once.
C35_ProgressAcrossRuns ==
    <>(/\ pc = "idle"
       /\ firstRun.phase = "repeating"
       /\ settled(firstRun.branches))

\* Reached by a capped scan of two branches that takes more than one run.
C35_Witness ==
    /\ pc = "idle"
    /\ firstRun.phase = "repeating"
    /\ firstRun.hasMax
    /\ Len(firstRun.branches) = 2
    /\ nCommits["b1"] > firstRun.cap
    /\ settled(firstRun.branches)


----------------------------------------------------------------------------
(* Runs with a ledger of the counter: what each run took over at its start  *)
(* and how many commits it has matched                                      *)

\* processedCommits of the previous output file as a run takes it over: the
\* file's value when the run keeps the file, 0 when it starts afresh.
takenOver(force, sFile, oFile) ==
    IF shouldReset(force, sFile, oFile) \/ ~oFile.parses
    THEN 0
    ELSE oFile.processedCommits

LedgerScanStart(force, hasMax, cap, branches) ==
    /\ ScanStart(force, hasMax, cap, branches)
    /\ ledger' = [runs |-> IF ledger.runs < 2 THEN ledger.runs + 1 ELSE 2,
                  loaded |-> takenOver(force, stateFile, outputFile),
                  matched |-> 0]
    /\ UNCHANGED <<attempt, firstRun, storeCall, parts>>

LedgerProcessCommit ==
    /\ ProcessCommit
    /\ ledger' = [ledger EXCEPT !.matched = @ + 1]
    /\ UNCHANGED <<attempt, firstRun, storeCall, parts>>

NextLedger ==
    \/ \E force \in BOOLEAN, hasMax \in BOOLEAN, cap \in 0..MaxCap,
          branches \in BranchLists :
            LedgerScanStart(force, hasMax, cap, branches)
    \/ ScanBranchBegin /\ UNCHANGED watch
    \/ CapReached /\ UNCHANGED watch
    \/ LedgerProcessCommit
    \/ SaveCheckpoint /\ UNCHANGED watch
    \/ ExhaustedClear /\ UNCHANGED watch
    \/ ExhaustedPersist /\ UNCHANGED watch
    \/ BranchReturn /\ UNCHANGED watch
    \/ ScanEnd /\ UNCHANGED watch

SpecLedger == Init /\ [][NextLedger]_vars

\* C36: from the start of a run on, and so at every write of the output
\* file during it, the file's processedCommits is the value the run loaded
\* at scan start (0 after a reset) plus the number of commits whose diffs it
\* has matched so far: it never decreases within a run and grows by exactly
\* 1 per processed commit.
C36_CounterAccounting ==
    ledger.runs > 0 =>
        /\ outputFile.exists
        /\ outputFile.processedCommits = ledger.loaded + ledger.matched
        /\ pc # "idle" => totalProcessedCommits = outputFile.processedCommits

\* Reached in a resumed run that took over a counter above 0 and has
\* written the file after matching a commit of its own.
C36_Witness ==
    /\ ledger.runs = 2
    /\ ledger.loaded > 0
    /\ ledger.matched > 0
    /\ pc = "saving"
    /\ outputFile.processedCommits = ledger.loaded + ledger.matched


----------------------------------------------------------------------------
(* The snapshot at scan start *)

\* C37 as stated: at scan start the findings and processedCommits of the
\* previous output file are carried into the run if forceFullScan is off
\* and both files exist and the output file parses; in every other case
\* the run carries nothing and the output file is overwritten with an empty
\* snapshot before any commit is processed.
C37_EmptyFileInEveryOtherCase ==
    [][(pc = "idle" /\ pc' = "loop") =>
          IF /\ ~cfg'.forceFullScan
             /\ stateFile.exists
             /\ outputFile.exists
             /\ outputFile.parses
          THEN /\ outputState'.findings = outputFile.findings
               /\ totalProcessedCommits' = outputFile.processedCommits
               /\ outputFile' = outputFile
          ELSE /\ outputState' = EmptySnapshot(cfg'.repoUrl)
               /\ totalProcessedCommits' = 0
               /\ outputFile' = writeOutput(EmptySnapshot(cfg'.repoUrl))]_vars

\* C37, amended: the findings and processedCommits of the previous output
\* file are carried into the run if and only if forceFullScan is off, both
\* files exist and the output file parses; otherwise the run starts from an
\* empty snapshot, and the output file is overwritten with an empty
\* snapshot at scan start when forceFullScan is on or a file is missing,
\* while an output file that does not parse is left as it is.
C37_CarryOverRule ==
    [][(pc = "idle" /\ pc' = "loop") =>
          IF /\ ~cfg'.forceFullScan
             /\ stateFile.exists
             /\ outputFile.exists
          THEN IF outputFile.parses
               THEN /\ outputState'.findings = outputFile.findings
                    /\ totalProcessedCommits' = outputFile.processedCommits
                    /\ outputFile' = outputFile
               ELSE /\ outputState' = EmptySnapshot(cfg'.repoUrl)
                    /\ totalProcessedCommits' = 0
                    /\ outputFile' = outputFile
          ELSE /\ outputState' = EmptySnapshot(cfg'.repoUrl)
               /\ totalProcessedCommits' = 0
               /\ outputFile' = writeOutput(EmptySnapshot(cfg'.repoUrl))]_vars

\* Reached right after the start of an unforced run on both files, the
\* output file cut short by a kill with findings in it: the run holds an
\* empty snapshot and the file is as the kill left it.
C37_Witness ==
    /\ pc = "loop"
    /\ agg.idx = 1
    /\ ~cfg.forceFullScan
    /\ stateFile.exists
    /\ ~outputFile.parses
    /\ outputFile.findings # << >>
    /\ outputState = EmptySnapshot(cfg.repoUrl)


----------------------------------------------------------------------------
(* The snapshot's placeholders and the checkpoint store *)

\* The output file has a placeholder for exactly the branches the
\* checkpoint store has an entry for, with the entry's lastProcessedSha.
placeholdersAgree ==
    LET entries == load(stateFile)
        placeholders == outputFile.branchPlaceholders
    IN \A b \in Branches :
          /\ (b \in DOMAIN placeholders) <=> (b \in DOMAIN entries)
          /\ (b \in DOMAIN placeholders) =>
                placeholders[b] = entries[b].lastProcessedSha

\* Branch lists in either order.
BranchOrders == {<<"b1">>, <<"b1", "b2">>, <<"b2", "b1">>}

NextAgree ==
    \/ \E force \in BOOLEAN, hasMax \in BOOLEAN, cap \in 0..MaxCap,
          branches \in BranchOrders :
            LedgerScanStart(force, hasMax, cap, branches)
    \/ ScanBranchBegin /\ UNCHANGED watch
    \/ CapReached /\ UNCHANGED watch
    \/ LedgerProcessCommit
    \/ SaveCheckpoint /\ UNCHANGED watch
    \/ ExhaustedClear /\ UNCHANGED watch
    \/ ExhaustedPersist /\ UNCHANGED watch
    \/ BranchReturn /\ UNCHANGED watch
    \/ ScanEnd /\ UNCHANGED watch

SpecAgree == Init /\ [][NextAgree]_vars

\* C38: after each commit's checkpoint write and when scan() returns, the
\* persisted snapshot's branchPlaceholders has a key b if and only if the
\* checkpoint store has an entry for b, and then the placeholder SHA equals
\* the entry's lastProcessedSha.
C38_PlaceholdersAgree ==
    (\/ pc = "walk" /\ loc.processed > 0
     \/ pc = "idle" /\ ledger.runs > 0)
        => placeholdersAgree


----------------------------------------------------------------------------
(* Scans of two repositories through one checkpoint file and one output    *)
(* file (POST /scan takes repoUrl from the request body)                    *)

NextRepos ==
    \/ \E repoUrl \in {RepoUrl, OtherUrl}, force \in BOOLEAN,
          hasMax \in BOOLEAN, cap \in 0..MaxCap, branches \in BranchLists :
            ScanStartOf(repoUrl, force, hasMax, cap, branches)
                /\ UNCHANGED watch
    \/ ScanBranchBegin /\ UNCHANGED watch
    \/ CapReached /\ UNCHANGED watch
    \/ ProcessCommit /\ UNCHANGED watch
    \/ SaveCheckpoint /\ UNCHANGED watch
    \/ ExhaustedClear /\ UNCHANGED watch
    \/ ExhaustedPersist /\ UNCHANGED watch
    \/ BranchReturn /\ UNCHANGED watch
    \/ ScanEnd /\ UNCHANGED watch

SpecRepos == Init /\ [][NextRepos]_vars

\* C39: after any sequence of scan() runs that share one checkpoint file and
\* one output file, including runs configured with different repository
\* URLs, every finding in the persisted snapshot was produced from a commit
\* of the repository named in the snapshot's repo field.
C39_SnapshotProvenance ==
    outputFile.exists =>
        \A f \in Range(outputFile.findings) :
            f.commitSha \in commitsOfRepo(outputFile.repo)

====
